---- MODULE Spec2Model ----
(***************************************************************************)
(* A model of linkedin-cli's core (src/src/core/linkedin.ts): the URL      *)
(* canonicalizers and the same-site guard, the collection loops, and the   *)
(* warm-intro path builder.  Text is modelled as a sequence of one-        *)
(* character strings, so that trimming, URL parsing, tokenizing and        *)
(* pattern matching are computed on the characters as the code does.       *)
(***************************************************************************)
EXTENDS Integers, Sequences, FiniteSets, TLC

(***************************************************************************)
(* Characters and text                                                     *)
(***************************************************************************)
UpperChars == <<"A","B","C","D","E","F","G","H","I","J","K","L","M",
                "N","O","P","Q","R","S","T","U","V","W","X","Y","Z">>
LowerChars == <<"a","b","c","d","e","f","g","h","i","j","k","l","m",
                "n","o","p","q","r","s","t","u","v","w","x","y","z">>
DigitChars == <<"0","1","2","3","4","5","6","7","8","9">>

SeqRange(s) == {s[i] : i \in 1..Len(s)}

IsUpper(c) == c \in SeqRange(UpperChars)
IsAlpha(c) == IsUpper(c) \/ c \in SeqRange(LowerChars)
IsAlnum(c) == IsAlpha(c) \/ c \in SeqRange(DigitChars)
\* JavaScript's \s, restricted to the white space the inputs here contain
IsSpace(c) == c \in {" ", "\t", "\n"}

\* String.prototype.toLowerCase, one character
ToLowerChar(c) ==
  IF IsUpper(c) THEN LowerChars[CHOOSE i \in 1..26 : UpperChars[i] = c] ELSE c

ToLowerCase(s) == [i \in 1..Len(s) |-> ToLowerChar(s[i])]

Take(s, n) == SubSeq(s, 1, n)
Drop(s, n) == SubSeq(s, n + 1, Len(s))

StartsWith(s, p) == Len(s) >= Len(p) /\ SubSeq(s, 1, Len(p)) = p
EndsWith(s, p) == Len(s) >= Len(p) /\ SubSeq(s, Len(s) - Len(p) + 1, Len(s)) = p

MinOf(S) == CHOOSE x \in S : \A y \in S : x <= y
MaxOf(S) == CHOOSE x \in S : \A y \in S : y <= x


\* index of the first character of s that is in C, 0 when there is none
FirstIn(s, C) ==
  LET I == {i \in 1..Len(s) : s[i] \in C} IN IF I = {} THEN 0 ELSE MinOf(I)

\* index of the last character of s that is in C, 0 when there is none
LastIn(s, C) ==
  LET I == {i \in 1..Len(s) : s[i] \in C} IN IF I = {} THEN 0 ELSE MaxOf(I)

\* index of the first character of s that is not in C, Len(s)+1 when all are
FirstNotIn(s, C) ==
  LET I == {i \in 1..Len(s) : s[i] \notin C} IN IF I = {} THEN Len(s) + 1 ELSE MinOf(I)

\* s from the first to the last of the indices I, empty when there are none
Between(s, I) == IF I = {} THEN <<>> ELSE SubSeq(s, MinOf(I), MaxOf(I))

\* String.prototype.trim
Trim(s) == Between(s, {i \in 1..Len(s) : ~IsSpace(s[i])})

\* s up to (not including) index i, all of s when i = 0
Before(s, i) == IF i = 0 THEN s ELSE Take(s, i - 1)

\* s up to the first character that is in C
UpTo(s, C) == Before(s, FirstIn(s, C))

\* the pieces of s between the characters of C (String.prototype.split on a
\* single separator character class)
RECURSIVE SplitOn(_, _)
SplitOn(s, C) ==
  LET i == FirstIn(s, C)
  IN IF i = 0 THEN <<s>> ELSE <<Take(s, i - 1)>> \o SplitOn(Drop(s, i), C)

RECURSIVE Concat(_)
Concat(ss) == IF ss = <<>> THEN <<>> ELSE Head(ss) \o Concat(Tail(ss))

RECURSIVE JoinWith(_, _)
JoinWith(ss, sep) ==
  IF ss = <<>> THEN <<>>
  ELSE IF Len(ss) = 1 THEN ss[1]
  ELSE ss[1] \o sep \o JoinWith(Tail(ss), sep)

\* whether p occurs in s starting at index i
OccursAt(s, p, i) == i >= 1 /\ i + Len(p) - 1 <= Len(s) /\ SubSeq(s, i, i + Len(p) - 1) = p

\* a || b on strings
OrElse(a, b) == IF a # <<>> THEN a ELSE b

(***************************************************************************)
(* new URL(value, base): the part of the WHATWG URL parser that the inputs *)
(* here exercise.  http and https are special schemes (authority, host     *)
(* lower-cased, userinfo and port split off, "\" read as "/", dot segments *)
(* removed, the path never empty); any other scheme has an opaque path and *)
(* an empty host.  A value without a scheme is resolved against the base,  *)
(* which in this program is always https://www.linkedin.com.               *)
(***************************************************************************)
HttpsScheme == <<"h","t","t","p","s">>
HttpScheme == <<"h","t","t","p">>
LinkedInHost == <<"l","i","n","k","e","d","i","n",".","c","o","m">>
WwwLinkedInHost == <<"w","w","w",".">> \o LinkedInHost
\* "https://www.linkedin.com"
LinkedInOrigin == HttpsScheme \o <<":","/","/">> \o WwwLinkedInHost

Slashes == {"/", "\\"}

\* the scheme of an absolute URL string: the characters before the first ":"
\* when they are a letter followed by letters, digits, "+", "-" or "."; the
\* result is the index of the ":" or 0
SchemeEnd(s) ==
  LET i == FirstIn(s, {":"})
  IN IF i >= 2 /\ IsAlpha(s[1])
        /\ \A j \in 2..(i - 1) : IsAlnum(s[j]) \/ s[j] \in {"+", "-", "."}
     THEN i ELSE 0

\* percent-encoding of the path and query of a special URL; of the
\* characters used here only the space is in the encode sets
PercentEncode(s) ==
  Concat([i \in 1..Len(s) |-> IF s[i] = " " THEN <<"%","2","0">> ELSE <<s[i]>>])

\* the path state of the parser: segs are the raw segments, the last one ended
\* by the end of the path and the others by a slash
RECURSIVE PathSegments(_, _)
PathSegments(segs, acc) ==
  IF segs = <<>> THEN acc
  ELSE IF Head(segs) = <<".", ".">>
  THEN PathSegments(Tail(segs),
         (IF acc = <<>> THEN acc ELSE Take(acc, Len(acc) - 1))
           \o (IF Len(segs) = 1 THEN <<(<<>>)>> ELSE <<>>))
  ELSE IF Head(segs) = <<".">>
  THEN PathSegments(Tail(segs), acc \o (IF Len(segs) = 1 THEN <<(<<>>)>> ELSE <<>>))
  ELSE PathSegments(Tail(segs), acc \o <<PercentEncode(Head(segs))>>)

\* the pathname of a special URL from the raw path text (up to "?" or "#"),
\* in which "\" is read as "/"
SpecialPathname(raw) ==
  LET fwd == [i \in 1..Len(raw) |-> IF raw[i] = "\\" THEN "/" ELSE raw[i]]
  IN <<"/">> \o JoinWith(PathSegments(SplitOn(IF Len(fwd) > 0 /\ fwd[1] = "/"
                                                THEN Tail(fwd) ELSE fwd, {"/"}), <<>>),
                         <<"/">>)

HostChars == SeqRange(LowerChars) \cup SeqRange(DigitChars) \cup {"-", "."}

BadUrl == [ok |-> FALSE, protocol |-> <<>>, hostname |-> <<>>, pathname |-> <<>>,
           search |-> <<>>, hash |-> <<>>]

\* text after the path: search is "?"+query (empty for an empty query), hash
\* is "#"+fragment (empty for an empty fragment)
QuerySearch(query) == IF query = <<>> THEN <<>> ELSE <<"?">> \o PercentEncode(query)

SearchOf(rest) ==
  LET q == FirstIn(rest, {"?", "#"})
  IN IF q = 0 \/ rest[q] = "#" THEN <<>> ELSE QuerySearch(UpTo(Drop(rest, q), {"#"}))

HashOf(rest) ==
  LET h == FirstIn(rest, {"#"})
  IN IF h = 0 \/ h = Len(rest) THEN <<>> ELSE Drop(rest, h - 1)

RawPathOf(rest) == UpTo(rest, {"?", "#"})

\* the host of an authority: after the userinfo "@", before the port ":"
HostOf(authority) == ToLowerCase(UpTo(Drop(authority, LastIn(authority, {"@"})), {":"}))

SpecialUrl(scheme, host, rest) ==
  IF host = <<>> \/ \E i \in 1..Len(host) : host[i] \notin HostChars
  THEN BadUrl
  ELSE [ok |-> TRUE, protocol |-> scheme \o <<":">>, hostname |-> host,
        pathname |-> SpecialPathname(RawPathOf(rest)),
        search |-> SearchOf(rest), hash |-> HashOf(rest)]

\* the authority ends at index e - 1 (at the end of the text when e = 0)
SpecialSplit(scheme, text, e) ==
  SpecialUrl(scheme, HostOf(Before(text, e)), IF e = 0 THEN <<>> ELSE Drop(text, e - 1))

\* a special URL from its scheme and the text that follows the authority
\* slashes: authority, then path, query and fragment
SpecialFromAuthority(scheme, text) ==
  SpecialSplit(scheme, text, FirstIn(text, Slashes \cup {"?", "#"}))

AfterSlashes(s) == Drop(s, FirstNotIn(s, Slashes) - 1)

\* a URL with a scheme that is not special: opaque path, empty host
OpaqueUrl(scheme, afterScheme) ==
  [ok |-> TRUE, protocol |-> scheme \o <<":">>, hostname |-> <<>>,
   pathname |-> RawPathOf(afterScheme),
   search |-> SearchOf(afterScheme), hash |-> HashOf(afterScheme)]

AbsoluteUrl(scheme, afterScheme) ==
  IF scheme \in {HttpsScheme, HttpScheme}
  THEN SpecialFromAuthority(scheme, AfterSlashes(afterScheme))
  ELSE OpaqueUrl(scheme, afterScheme)

\* a value without a scheme, resolved against https://www.linkedin.com
RelativeUrl(input) ==
  IF Len(input) >= 2 /\ input[1] \in Slashes /\ input[2] \in Slashes
  THEN SpecialFromAuthority(HttpsScheme, AfterSlashes(input))
  ELSE [ok |-> TRUE, protocol |-> HttpsScheme \o <<":">>, hostname |-> WwwLinkedInHost,
        pathname |-> SpecialPathname(RawPathOf(input)),
        search |-> SearchOf(input), hash |-> HashOf(input)]

ParseTrimmed(input, hasBase) ==
  LET se == SchemeEnd(input)
  IN IF se > 0 THEN AbsoluteUrl(ToLowerCase(Take(input, se - 1)), Drop(input, se))
     ELSE IF ~hasBase THEN BadUrl
     ELSE RelativeUrl(input)

\* new URL(value, "https://www.linkedin.com") when hasBase, new URL(value)
\* otherwise; ok is FALSE where the constructor throws a TypeError
ParseURL(value, hasBase) == ParseTrimmed(Trim(value), hasBase)

\* url.toString() after url.search = "" and url.hash = ""
HrefNoSearchNoHash(u) ==
  IF u.protocol \in {HttpsScheme \o <<":">>, HttpScheme \o <<":">>}
  THEN u.protocol \o <<"/","/">> \o u.hostname \o u.pathname
  ELSE u.protocol \o u.pathname

(***************************************************************************)
(* URL validation and URL helpers                                          *)
(***************************************************************************)
DotLinkedInHost == <<".">> \o LinkedInHost

\* parsed.hostname.toLowerCase() is linkedin.com or ends with .linkedin.com
IsLinkedInHost(parsed) ==
  parsed.ok /\ (parsed.hostname = LinkedInHost \/ EndsWith(parsed.hostname, DotLinkedInHost))

\* assertLinkedInUrl returns normally (TRUE) or throws (FALSE)
assertLinkedInUrl(url) == IsLinkedInHost(ParseURL(url, FALSE))

HrefOrEmpty(url) == IF url.ok THEN HrefNoSearchNoHash(url) ELSE <<>>

normalizeProfileUrl(value) ==
  IF value = <<>> THEN <<>> ELSE HrefOrEmpty(ParseURL(value, TRUE))

\* url.pathname.match(/^\/in\/([^/?#]+)/i): the captured group, <<>> for no match
\* (seg is "in" or "company")
PathMatch(pathname, seg) ==
  IF StartsWith(ToLowerCase(pathname), <<"/">> \o seg \o <<"/">>)
  THEN UpTo(Drop(pathname, Len(seg) + 2), {"/", "?", "#"})
  ELSE <<>>

InSeg == <<"i","n">>
CompanySeg == <<"c","o","m","p","a","n","y">>

CanonicalOrNormalized(value, seg, match) ==
  IF match = <<>> THEN normalizeProfileUrl(value)
  ELSE LinkedInOrigin \o <<"/">> \o seg \o <<"/">> \o match \o <<"/">>

CanonicalFromParsed(value, seg, url) ==
  IF ~url.ok THEN <<>> ELSE CanonicalOrNormalized(value, seg, PathMatch(url.pathname, seg))

toCanonicalProfileUrl(value) ==
  IF value = <<>> THEN <<>> ELSE CanonicalFromParsed(value, InSeg, ParseURL(value, TRUE))

toCanonicalCompanyUrl(value) ==
  IF value = <<>> THEN <<>> ELSE CanonicalFromParsed(value, CompanySeg, ParseURL(value, TRUE))

WithTrailingSlash(s) == IF EndsWith(s, <<"/">>) THEN s ELSE s \o <<"/">>

normalizeProfileBase(url) == WithTrailingSlash(normalizeProfileUrl(url))

(***************************************************************************)
(* URL builders.  A result is [ok, value]: ok is FALSE where the builder   *)
(* throws.                                                                 *)
(***************************************************************************)
Threw == [ok |-> FALSE, value |-> <<>>]
Returned(v) == [ok |-> TRUE, value |-> v]

\* input.replace(/^\/+/, "").replace(/\/+$/, "")
StripSlashes(s) == Between(s, {i \in 1..Len(s) : s[i] # "/"})

WithoutTrailingSlash(s) == IF EndsWith(s, <<"/">>) THEN Take(s, Len(s) - 1) ELSE s

\* [^/]+\/?$ : one or more characters that are not "/", then an optional "/"
IsLastSegment(tail) ==
  WithoutTrailingSlash(tail) # <<>> /\ "/" \notin SeqRange(WithoutTrailingSlash(tail))

\* /linkedin\.com\/in\/[^/]+\/?$/i.test(s)
LinkedInInPattern == LinkedInHost \o <<"/">> \o InSeg \o <<"/">>
TestProfilePattern(s) ==
  \E i \in 1..Len(s) :
    /\ OccursAt(ToLowerCase(s), LinkedInInPattern, i)
    /\ IsLastSegment(Drop(s, i + Len(LinkedInInPattern) - 1))

HttpPrefix == HttpScheme \o <<":","/","/">>
HttpsPrefix == HttpsScheme \o <<":","/","/">>

ReturnedIf(ok, v) == IF ok THEN Returned(v) ELSE Threw

BuildProfileTrimmed(input) ==
  IF input = <<>> THEN Threw
  ELSE IF StartsWith(input, HttpPrefix) \/ StartsWith(input, HttpsPrefix)
  THEN LET canonical == toCanonicalProfileUrl(input)
       IN ReturnedIf(TestProfilePattern(canonical), canonical)
  ELSE LET clean == StripSlashes(input)
       IN ReturnedIf(clean # <<>>,
                     LinkedInOrigin \o <<"/">> \o InSeg \o <<"/">> \o clean \o <<"/">>)

buildProfileUrl(vanityName) == BuildProfileTrimmed(Trim(vanityName))

(***************************************************************************)
(* State.  Each part of the program has its own variables; a specification *)
(* that exercises one part leaves the others idle.                         *)
(*   nav    one call of an exported operation that navigates the page to a *)
(*          URL derived from its caller's argument                         *)
(*   build  one call of a URL builder, and a second call on its result     *)
(*   intro  one call of buildWarmIntroPathsFromMutuals                     *)
(*   auth   one call of launchAuthenticatedContext, the session file and   *)
(*          the clock                                                      *)
(*   profiles  one run of the `batch profiles` command                     *)
(*   people    one call of searchPeople: its per-degree sub-collections     *)
(*   cardText  the text of one search card, given to inferDegree and to     *)
(*   watch     one run of `posts list --watch`: the command, its timer, its  *)
(*   config    the config file and the cached config over a sequence of     *)
(*             `config set` runs                                           *)
(*             polls, the signal handlers and the browser                  *)
(*             parseSearchCardText                                         *)
(***************************************************************************)
VARIABLES nav, build, intro, auth, profiles, people, cardText, watch, config,
          call,             \* the collection in progress: its function and arguments
          page,             \* what the page does when asked for a batch
          pc,               \* where the collection is: "goto", "scrape", "evaluate",
                            \* "scroll", "done" (returned) or "threw"
          seen,             \* the dedup Map, its entries in insertion order
          pageNumber,       \* collectPeopleResultsByPageNumber's loop variable
          round,            \* the scroll collectors' loop variable
          emptyPageStreak, stableRounds, previousCount,
          result,           \* the array returned
          fetches,          \* history: the rounds started so far
          firstSeen,        \* history: the first record offered under each key, in
                            \* the order in which the keys were first offered
          shadowed,         \* history: a record was offered under a key that already
                            \* had another record
          lastPages         \* history: for the last two pages of the page collector,
                            \* whether the page produced no record

colVars == <<call, page, pc, seen, pageNumber, round, emptyPageStreak, stableRounds,
             previousCount, result, fetches, firstSeen, shadowed, lastPages>>

vars == <<nav, build, intro, auth, profiles, people, cardText, watch, config, colVars>>

NavIdle == [op |-> "none", url |-> <<>>, limit |-> 0, pc |-> "idle",
            guarded |-> FALSE, target |-> <<>>]
NoFilters == [keywords |-> <<>>, network |-> <<>>, location |-> <<>>]
BuildIdle == [fn |-> "none", input |-> <<>>, filters |-> NoFilters, pc |-> "idle",
              first |-> Threw, second |-> Threw]
IntroIdle == [pc |-> "idle", sourceProfileUrl |-> <<>>, target |-> <<>>, mutuals |-> <<>>,
              paths |-> <<>>]
AuthIdle == [pc |-> "idle", file |-> [kind |-> "absent", cookies |-> <<>>], now |-> 0,
             launched |-> FALSE, closed |-> FALSE, existed |-> FALSE, held |-> FALSE]
ProfilesIdle == [pc |-> "idle", lines |-> <<>>, limit |-> 1, cache |-> FALSE, urls |-> <<>>,
                 visited |-> <<>>, results |-> <<>>, failures |-> <<>>, exitCode |-> 0]
PeopleIdle == [pc |-> "idle", network |-> <<>>, limit |-> 1, hasLocation |-> FALSE,
               location |-> <<>>,
               started |-> 0, active |-> {},
               perNetworkResults |-> <<>>, results |-> <<>>]
CardTextIdle == [pc |-> "idle", raw |-> <<>>, inferred |-> FALSE, degree |-> <<>>,
                 parsed |-> FALSE, card |-> [name |-> <<>>, headline |-> <<>>, location |-> <<>>]]
WatchIdle == [pc |-> "idle", tracked |-> FALSE, polling |-> FALSE, inFlight |-> 0,
              consecutiveErrors |-> 0, aborted |-> FALSE, timer |-> FALSE, listener |-> FALSE,
              closeCalls |-> 0, closers |-> {}, closed |-> FALSE, error |-> FALSE,
              cleanup |-> "none", exited |-> FALSE, ticks |-> 0, outcomes |-> <<>>]
ConfigIdle == [pc |-> "idle", file |-> [exists |-> FALSE, content |-> <<>>],
               before |-> [exists |-> FALSE, content |-> <<>>],
               cachedConfig |-> <<>>, loaded |-> <<>>, sets |-> 0, exitCode |-> 0]
ColIdle ==
  /\ call = [fn |-> "none", limit |-> 0, maxPages |-> 0]
  /\ page = [kind |-> "none", batch |-> <<>>]
  /\ pc = "idle" /\ seen = <<>> /\ pageNumber = 1 /\ round = 0
  /\ emptyPageStreak = 0 /\ stableRounds = 0 /\ previousCount = 0
  /\ result = <<>> /\ fetches = 0 /\ firstSeen = <<>> /\ shadowed = FALSE /\ lastPages = <<>>

\* what an action of one part leaves alone
OtherThanNav == <<build, intro, auth, profiles, people, cardText, watch, config, colVars>>
OtherThanBuild == <<nav, intro, auth, profiles, people, cardText, watch, config, colVars>>
OtherThanCol == <<nav, build, intro, auth, profiles, people, cardText, watch, config>>
OtherThanIntro == <<nav, build, auth, profiles, people, cardText, watch, config, colVars>>
OtherThanAuth == <<nav, build, intro, profiles, people, cardText, watch, config, colVars>>
OtherThanProfiles == <<nav, build, intro, auth, people, cardText, watch, config, colVars>>
OtherThanPeople == <<nav, build, intro, auth, profiles, cardText, watch, config, colVars>>
OtherThanCardText == <<nav, build, intro, auth, profiles, people, watch, config, colVars>>
OtherThanWatch == <<nav, build, intro, auth, profiles, people, cardText, config, colVars>>
OtherThanConfig == <<nav, build, intro, auth, profiles, people, cardText, watch, colVars>>
OtherThanSearch == <<nav, build, intro, auth, profiles, cardText, watch, config>>

(***************************************************************************)
(* Exported operations that navigate to a caller-supplied URL.  Each is    *)
(* modelled up to its first page.goto: pc becomes "threw" when it throws   *)
(* before navigating, "returned" when it returns without navigating, and   *)
(* "navigated" when page.goto is called, with target the URL passed to it  *)
(* and guarded telling whether assertLinkedInUrl was called (and returned) *)
(* on the URL the target is derived from.                                  *)
(***************************************************************************)
EvilHost == <<"e","v","i","l",".","c","o","m">>
NavHosts == {<<>>, WwwLinkedInHost, LinkedInHost, EvilHost,
             <<"n","o","t">> \o LinkedInHost,
             WwwLinkedInHost \o <<".">> \o EvilHost,
             LinkedInHost \o <<"@">> \o EvilHost}
NavPaths == {<<>>, <<"/","i","n","/","a">>, <<"/","c","o","m","p","a","n","y","/","b","/">>,
             <<"/","x","?","q","#","f">>}
CallerUrls == {p \o h \o q : p \in {<<>>, HttpsPrefix, <<"/","/">>}, h \in NavHosts, q \in NavPaths}
NavOps == {"getProfile", "getMutualConnections", "getCompanyProfile", "listPosts",
           "sendMessage", "sendConnectionRequest", "screenshotProfile"}

\* if (!checked) throw ...; assertLinkedInUrl(checked); await page.goto(target)
GuardedGoto(checked, target) ==
  nav' = IF checked = <<>> \/ ~assertLinkedInUrl(checked)
         THEN [nav EXCEPT !.pc = "threw"]
         ELSE [nav EXCEPT !.pc = "navigated", !.guarded = TRUE, !.target = target]

\* the operations that navigate to the very URL they checked
GuardedGotoSame(url) == GuardedGoto(url, url)

getProfile ==
  /\ nav.pc = "call" /\ nav.op = "getProfile"
  /\ GuardedGotoSame(normalizeProfileUrl(nav.url))
  /\ UNCHANGED OtherThanNav

getMutualConnections ==
  /\ nav.pc = "call" /\ nav.op = "getMutualConnections"
  /\ IF nav.limit <= 0
     THEN nav' = [nav EXCEPT !.pc = "returned"]
     ELSE GuardedGotoSame(toCanonicalProfileUrl(nav.url))
  /\ UNCHANGED OtherThanNav

AboutSuffix == <<"a","b","o","u","t","/">>

\* page.goto(`${canonical}about/`)
GuardedGotoAbout(canonical) == GuardedGoto(canonical, canonical \o AboutSuffix)

getCompanyProfile ==
  /\ nav.pc = "call" /\ nav.op = "getCompanyProfile"
  /\ GuardedGotoAbout(toCanonicalCompanyUrl(nav.url))
  /\ UNCHANGED OtherThanNav

ActivitySuffix == <<"r","e","c","e","n","t","-","a","c","t","i","v","i","t","y","/","a","l","l","/">>

\* listPosts navigates without calling assertLinkedInUrl
listPosts ==
  /\ nav.pc = "call" /\ nav.op = "listPosts"
  /\ IF nav.limit <= 0
     THEN nav' = [nav EXCEPT !.pc = "returned"]
     ELSE nav' = [nav EXCEPT !.pc = "navigated",
                             !.target = normalizeProfileBase(nav.url) \o ActivitySuffix]
  /\ UNCHANGED OtherThanNav

sendMessage ==
  /\ nav.pc = "call" /\ nav.op = "sendMessage"
  /\ GuardedGotoSame(toCanonicalProfileUrl(nav.url))
  /\ UNCHANGED OtherThanNav

sendConnectionRequest ==
  /\ nav.pc = "call" /\ nav.op = "sendConnectionRequest"
  /\ GuardedGotoSame(toCanonicalProfileUrl(nav.url))
  /\ UNCHANGED OtherThanNav

screenshotProfile ==
  /\ nav.pc = "call" /\ nav.op = "screenshotProfile"
  /\ GuardedGotoSame(normalizeProfileUrl(nav.url))
  /\ UNCHANGED OtherThanNav

NavInit ==
  /\ nav \in {[op |-> o, url |-> u, limit |-> l, pc |-> "call", guarded |-> FALSE,
               target |-> <<>>] : o \in NavOps, u \in CallerUrls, l \in {0, 1}}
  /\ build = BuildIdle /\ intro = IntroIdle /\ auth = AuthIdle /\ profiles = ProfilesIdle /\ people = PeopleIdle /\ cardText = CardTextIdle /\ watch = WatchIdle /\ config = ConfigIdle
  /\ ColIdle

NavNext ==
  \/ getProfile
  \/ getMutualConnections
  \/ getCompanyProfile
  \/ listPosts
  \/ sendMessage
  \/ sendConnectionRequest
  \/ screenshotProfile

NavSpec == NavInit /\ [][NavNext]_vars

\* the host of the URL handed to page.goto is linkedin.com or a subdomain of it
OnLinkedIn(url) == assertLinkedInUrl(url)

\* C1: page.goto is never invoked with a caller-derived URL whose host is
\* neither linkedin.com nor a subdomain of linkedin.com (every navigating
\* operation having called assertLinkedInUrl first).  listPosts breaks it.
C1_GotoStaysOnLinkedIn ==
  (nav.pc = "navigated" /\ ParseURL(nav.target, FALSE).ok) => OnLinkedIn(nav.target)

\* the operations that do call the guard keep the page on LinkedIn
GuardedGotoStaysOnLinkedIn ==
  (nav.pc = "navigated" /\ nav.guarded) => OnLinkedIn(nav.target)

\* every operation but listPosts calls the guard before it navigates
OnlyListPostsUnguarded ==
  (nav.pc = "navigated" /\ ~nav.guarded) => nav.op = "listPosts"

(***************************************************************************)
(* The URL builders, called on a caller's text and then again on their own *)
(* result.  pc is "call" before the first call, "built" after it and       *)
(* "rebuilt" after the second call.                                        *)
(***************************************************************************)
MaxVanityLen == 3

\* the texts of length 1..n over the characters C
RECURSIVE TextsUpTo(_, _)
TextsUpTo(C, n) ==
  IF n = 0 THEN {}
  ELSE {<<c>> : c \in C} \cup TextsUpTo(C, n - 1)
         \cup {t \o <<c>> : t \in TextsUpTo(C, n - 1), c \in C}

\* profile URLs as a caller may paste them
PastedUrls == {p \o h \o q : p \in {HttpPrefix, HttpsPrefix},
                             h \in {WwwLinkedInHost, EvilHost},
                             q \in NavPaths \cup {<<"/","I","N","/","a","?","t">>}}

BuilderInputs ==
  TextsUpTo({"a", "B", "-", " ", "?", "#", ".", "/"}, MaxVanityLen) \cup PastedUrls

(***************************************************************************)
(* buildPostUrl                                                            *)
(***************************************************************************)
\* the first digit only
OneDigitAt(s, i) == <<s[i]>>

\* (\d+) matched at index i: the digits from i on, as many as there are
DigitRunAt(s, i) ==
  SubSeq(s, i, FirstNotIn(Drop(s, i - 1), SeqRange(DigitChars)) + i - 2)

\* the group captured by s.match(/<prefix>(\d{n,})/i) for a regular expression
\* whose prefix matches the texts in prefixes, all of one length and in lower
\* case: the digits of the leftmost match, <<>> for no match
Captured(s, prefixes, n) ==
  LET starts == {i \in 1..(Len(s) - n + 1) :
                   /\ \A j \in i..(i + n - 1) : s[j] \in SeqRange(DigitChars)
                   /\ \E p \in prefixes : OccursAt(ToLowerCase(s), p, i - Len(p))}
  IN IF starts = {} THEN <<>> ELSE DigitRunAt(s, MinOf(starts))

ActivityWord == <<"a","c","t","i","v","i","t","y">>
UrnActivity == <<"u","r","n",":","l","i",":","a","c","t","i","v","i","t","y",":">>
FeedUpdate == <<"/","f","e","e","d","/","u","p","d","a","t","e","/">>

\* /^\d+$/.test(id), then the template
PostFromId(id) ==
  ReturnedIf(id # <<>> /\ \A i \in 1..Len(id) : id[i] \in SeqRange(DigitChars),
             LinkedInOrigin \o FeedUpdate \o UrnActivity \o id \o <<"/">>)

\* id = matchActivity[1], else matchPosts[1] with
\* matchPosts = pathname.match(/activity[- ](\d+)/i) ?? pathname.match(/(\d{10,})/),
\* else the input
PostFromUrl(input, url) ==
  IF ~url.ok THEN Threw
  ELSE PostFromId(OrElse(Captured(url.pathname, {ActivityWord \o <<":">>, ActivityWord \o <<"-">>}, 1),
                  OrElse(Captured(url.pathname, {ActivityWord \o <<"-">>, ActivityWord \o <<" ">>}, 1),
                  OrElse(Captured(url.pathname, {<<>>}, 10), input))))

PostFromTrimmed(input) ==
  IF input = <<>> THEN Threw
  ELSE IF StartsWith(input, HttpPrefix) \/ StartsWith(input, HttpsPrefix)
  THEN PostFromUrl(input, ParseURL(input, FALSE))
  ELSE PostFromId(OrElse(Captured(input, {UrnActivity}, 1), input))

buildPostUrl(activityId) == PostFromTrimmed(Trim(activityId))

MaxDigits == 2

\* activity ids: short ones, and two of ten digits and more
DigitStrings ==
  TextsUpTo({"1", "2"}, MaxDigits) \cup {<<"7","2","9","1","2","3","4","5","6","7">>, <<"7","2","9","1","2","3","4","5","6","7","8">>}

\* what a caller may pass for the activity d
PostForms(d) ==
  {d, <<" ">> \o d \o <<" ">>, UrnActivity \o d, <<"U","R","N",":","L","I",":","A","c","t","i","v","i","t","y",":">> \o d, d \o <<"x">>,
   <<"x"," ">> \o UrnActivity \o d \o <<"y">>}
  \cup {p \o WwwLinkedInHost \o q : p \in {HttpPrefix, HttpsPrefix},
          q \in {FeedUpdate \o UrnActivity \o d \o <<"/">>,
                 FeedUpdate \o UrnActivity \o d \o <<"/","?","a","c","t","o","r","C","o","m","p","a","n","y","I","d","=","1">>,
                 <<"/","p","o","s","t","s","/","j","o","h","n","-","d","o","e","-">> \o ActivityWord \o <<"-">> \o d \o <<"-","a","b","c","d">>,
                 <<"/","p","o","s","t","s","/","j","o","h","n","-","d","o","e","-">> \o ActivityWord \o <<"-","2","/">> \o UrnActivity \o d,
                 <<"/","p","o","s","t","s","/","j","o","h","n","-","d","o","e","-">> \o d,
                 <<"/","p","o","s","t","s","/","j","o","h","n","-","d","o","e","-">> \o ActivityWord \o <<" ">> \o d}}

PostInputs ==
  UNION {PostForms(d) : d \in DigitStrings}
  \cup {<<>>, <<" "," ">>, UrnActivity \o <<"n","o","t","-","a","-","n","u","m","b","e","r">>, <<"a","b","c">>, HttpsPrefix,
        HttpsPrefix \o WwwLinkedInHost \o <<"/","f","e","e","d","/">>,
        HttpsPrefix \o WwwLinkedInHost \o FeedUpdate \o UrnActivity}

BuildPostUrl ==
  /\ build.pc = "call" /\ build.fn = "buildPostUrl"
  /\ build' = [build EXCEPT !.pc = "built", !.first = buildPostUrl(build.input)]
  /\ UNCHANGED OtherThanBuild

(***************************************************************************)
(* buildPeopleSearchUrl.  filters is [keywords, network, location], with   *)
(* location <<>> where the caller gives none.                              *)
(***************************************************************************)
\* the bytes that URLSearchParams percent-encodes, of the characters used here
FormCodes ==
  <<<<"\"", <<"%","2","2">>>>, <<"#", <<"%","2","3">>>>, <<"%", <<"%","2","5">>>>,
    <<"&", <<"%","2","6">>>>, <<"+", <<"%","2","B">>>>, <<",", <<"%","2","C">>>>,
    <<"/", <<"%","2","F">>>>, <<"=", <<"%","3","D">>>>, <<"?", <<"%","3","F">>>>,
    <<"[", <<"%","5","B">>>>, <<"]", <<"%","5","D">>>>>>

\* application/x-www-form-urlencoded serializing of a name or a value
FormEncode(s) ==
  Concat([i \in 1..Len(s) |->
            IF s[i] = " " THEN <<"+">>
            ELSE IF \E k \in 1..Len(FormCodes) : FormCodes[k][1] = s[i]
            THEN FormCodes[CHOOSE k \in 1..Len(FormCodes) : FormCodes[k][1] = s[i]][2]
            ELSE <<s[i]>>])

\* url.toString() of https://www.linkedin.com/search/results/people/ with
\* the parameters params, a list of [name, value]
SearchUrl(params) ==
  LinkedInOrigin \o <<"/","s","e","a","r","c","h","/","r","e","s","u","l","t","s","/","p","e","o","p","l","e","/">> \o <<"?">>
    \o JoinWith([i \in 1..Len(params) |->
                   FormEncode(params[i].name) \o <<"=">> \o FormEncode(params[i].value)],
                <<"&">>)

\* NETWORK_TO_LINKEDIN_CODE
NetworkCode(item) == CASE item = "1" -> "F" [] item = "2" -> "S" [] item = "3" -> "O"

\* JSON.stringify of an array of one-letter strings
JsonStringify(codes) ==
  <<"[">> \o JoinWith([i \in 1..Len(codes) |-> <<"\"", codes[i], "\"">>], <<",">>) \o <<"]">>

WithoutNetwork(networkCodes) == <<>>

\* if (networkCodes.length > 0) params.set("network", JSON.stringify(networkCodes))
NetworkParam(networkCodes) ==
  IF Len(networkCodes) > 0
  THEN <<[name |-> <<"n","e","t","w","o","r","k">>, value |-> JsonStringify(networkCodes)]>>
  ELSE <<>>

buildPeopleSearchUrl(filters) ==
  Returned(SearchUrl(
    <<[name |-> <<"k","e","y","w","o","r","d","s">>,
       value |-> JoinWith(<<Trim(filters.keywords)>>
                            \o (IF filters.location # <<>> THEN <<Trim(filters.location)>>
                                ELSE <<>>),
                          <<" ">>)]>>
    \o NetworkParam([i \in 1..Len(filters.network) |-> NetworkCode(filters.network[i])])
    \o <<[name |-> <<"o","r","i","g","i","n">>, value |-> <<"G","L","O","B","A","L","_","S","E","A","R","C","H","_","H","E","A","D","E","R">>]>>))

MaxNetwork == 2

SearchFilters ==
  {[keywords |-> k, network |-> n, location |-> l] :
     k \in {<<"s","o","f","t","w","a","r","e"," ","e","n","g","i","n","e","e","r">>, <<" ","a","&","b","=","c","+","d"," ">>, <<"n","e","t","w","o","r","k","=","[","x","]",",","#","?","%">>},
     n \in {<<>>} \cup TextsUpTo({"1", "2", "3"}, MaxNetwork),
     l \in {<<>>, <<"S","a","n"," ","F","r","a","n","c","i","s","c","o">>, <<" ","S","/","F"," ">>, <<" ">>}}

BuildPeopleSearchUrl ==
  /\ build.pc = "call" /\ build.fn = "buildPeopleSearchUrl"
  /\ build' = [build EXCEPT !.pc = "built", !.first = buildPeopleSearchUrl(build.filters)]
  /\ UNCHANGED OtherThanBuild

BuildProfileUrl ==
  /\ build.pc = "call" /\ build.fn = "buildProfileUrl"
  /\ build' = [build EXCEPT !.pc = "built", !.first = buildProfileUrl(build.input)]
  /\ UNCHANGED OtherThanBuild

RebuildProfileUrl ==
  /\ build.pc = "built" /\ build.fn = "buildProfileUrl" /\ build.first.ok
  /\ build' = [build EXCEPT !.pc = "rebuilt", !.second = buildProfileUrl(build.first.value)]
  /\ UNCHANGED OtherThanBuild

BuildInit ==
  /\ build \in {[BuildIdle EXCEPT !.fn = "buildProfileUrl", !.input = i, !.pc = "call"] :
                  i \in BuilderInputs}
              \cup {[BuildIdle EXCEPT !.fn = "buildPostUrl", !.input = i, !.pc = "call"] :
                      i \in PostInputs}
              \cup {[BuildIdle EXCEPT !.fn = "buildPeopleSearchUrl", !.filters = f,
                                      !.pc = "call"] : f \in SearchFilters}
  /\ nav = NavIdle /\ intro = IntroIdle /\ auth = AuthIdle /\ profiles = ProfilesIdle /\ people = PeopleIdle /\ cardText = CardTextIdle /\ watch = WatchIdle /\ config = ConfigIdle
  /\ ColIdle

BuildNext ==
  \/ BuildProfileUrl
  \/ RebuildProfileUrl
  \/ BuildPostUrl
  \/ BuildPeopleSearchUrl

BuildSpec == BuildInit /\ [][BuildNext]_vars

\* a valid vanity name: non-empty, no slashes
ValidVanity(v) == v # <<>> /\ "/" \notin SeqRange(v)

\* C10: for every valid vanity name v (non-empty, no slashes),
\* buildProfileUrl(buildProfileUrl(v)) equals buildProfileUrl(v).  The code
\* breaks it for names that hold "?", "#", a space or dots.
C10_BuildProfileUrlIdempotent ==
  (build.pc = "rebuilt" /\ ValidVanity(build.input)) => build.second = build.first

\* the round trip does preserve the names made of letters, digits and hyphens
PlainVanityIdempotent ==
  (build.pc = "rebuilt" /\ \A i \in 1..Len(build.input) :
                             IsAlnum(build.input[i]) \/ build.input[i] = "-")
    => build.second = build.first

(***************************************************************************)
(* The collection loops: collectPeopleResultsByPageNumber (search pages),  *)
(* and the scroll collectors listPosts, listConnections and searchJobs.    *)
(* A card as the page yields it has a link (profileUrl, postUrl, jobUrl)   *)
(* and a text (name, text, title); the other fields of a card are copied   *)
(* into the record unread and are left out.  A record is [text, url], an   *)
(* entry of the dedup Map is [key, value].                                 *)
(***************************************************************************)
MaxBatch == 2
MaxLimit == 2
FeedCards == 13

DefaultMaxPages == 30
MutualsMaxPages == 50
EmptyPageLimit == 2
ListPostsMaxRounds == 30
ListPostsStableRounds == 4
ListConnectionsMaxRounds == 60
ListConnectionsStableRounds == 5
SearchJobsMaxRounds == 15
SearchJobsStableRounds == 3
PostKeyChars == 120

People == "collectPeopleResultsByPageNumber"
LoopFns == {People, "listPosts", "listConnections", "searchJobs"}

\* two cards for one profile (a relative link, and an absolute link with a
\* query), a card for another profile, and a card with no link whose text has
\* two lines
RawCards ==
  {[url |-> <<"/","i","n","/","a">>, text |-> <<"A">>],
   [url |-> HttpsPrefix \o WwwLinkedInHost \o <<"/","i","n","/","a","?","x">>,
    text |-> <<"A","2">>],
   [url |-> <<"/","i","n","/","b","/">>, text |-> <<"B">>],
   [url |-> <<>>, text |-> <<"T","\n","T">>]}

\* the batches a page can yield: up to n cards
RECURSIVE BatchesUpTo(_)
BatchesUpTo(n) ==
  IF n = 0 THEN {<<>>}
  ELSE BatchesUpTo(n - 1) \cup {Append(b, c) : b \in BatchesUpTo(n - 1), c \in RawCards}

RawBatches == BatchesUpTo(MaxBatch)

\* the k-th card of a feed of cards for FeedCards different profiles
NewCard(k) == [url |-> <<"/","i","n","/">> \o <<LowerChars[k + 2]>>, text |-> <<UpperChars[k + 2]>>]

PageBatches == RawBatches \cup {<<NewCard(k)>> : k \in 1..FeedCards}


\* rawPeopleCardsToResults
HasProfileUrl(item) == item.url # <<>>
IsPerson(item) == item.text # <<>> /\ item.url # <<>>
ToPersons(items) ==
  [i \in 1..Len(items) |-> [text |-> items[i].text, url |-> toCanonicalProfileUrl(items[i].url)]]
rawPeopleCardsToResults(rawResults) ==
  SelectSeq(ToPersons(SelectSeq(rawResults, HasProfileUrl)), IsPerson)

\* listPosts: a post with neither link nor text is skipped
HasUrlOrText(post) == ~(post.url = <<>> /\ post.text = <<>>)
\* normalizedUrl = x.url ? normalizeProfileUrl(x.url) : ""
NormalizedUrlOf(card) == IF card.url # <<>> THEN normalizeProfileUrl(card.url) ELSE <<>>
PostRecords(posts) ==
  [i \in 1..Len(posts) |-> [text |-> posts[i].text, url |-> NormalizedUrlOf(posts[i])]]

\* listConnections: a card without link or name is skipped, and so is one
\* whose link has no canonical form
ConnectionRecords(connections) ==
  SelectSeq(ToPersons(SelectSeq(connections, IsPerson)), HasProfileUrl)

\* searchJobs: a job without title is skipped; a title of several lines is cut
\* to its first line
NonEmpty(line) == line # <<>>
TrimAll(lines) == [i \in 1..Len(lines) |-> Trim(lines[i])]
FirstOfLines(title, titleLines) == IF Len(titleLines) >= 2 THEN titleLines[1] ELSE title
JobTitle(title) == FirstOfLines(title, SelectSeq(TrimAll(SplitOn(title, {"\n"})), NonEmpty))
HasTitle(job) == job.text # <<>>
JobRecords(jobs) ==
  [i \in 1..Len(jobs) |-> [text |-> JobTitle(jobs[i].text), url |-> NormalizedUrlOf(jobs[i])]]

\* the records a loop makes of a batch of cards, in batch order
RecordsOf(fn, rawCards) ==
  CASE fn = People -> rawPeopleCardsToResults(rawCards)
    [] fn = "listPosts" -> PostRecords(SelectSeq(rawCards, HasUrlOrText))
    [] fn = "listConnections" -> ConnectionRecords(rawCards)
    [] fn = "searchJobs" -> JobRecords(SelectSeq(rawCards, HasTitle))

\* the dedup key of a record: the profile URL of a person; the normalized link
\* of a post, or "text:" and the first 120 characters of its text; the
\* normalized link of a job, or title::company (the cards here name no company)
RecordKey(fn, record) ==
  CASE fn \in {People, "listConnections"} -> record.url
    [] fn = "listPosts" ->
         OrElse(record.url, <<"t","e","x","t",":">>
                              \o Take(record.text, MinOf({PostKeyChars, Len(record.text)})))
    [] fn = "searchJobs" -> OrElse(record.url, record.text \o <<":",":">>)

\* the entries a loop offers to its dedup Map for a batch of cards
EntriesOf(fn, rawCards) ==
  [i \in 1..Len(RecordsOf(fn, rawCards)) |->
     [key |-> RecordKey(fn, RecordsOf(fn, rawCards)[i]), value |-> RecordsOf(fn, rawCards)[i]]]

\* EntriesOf, computed once for every batch
Offered == [fn \in LoopFns, rawCards \in PageBatches |-> EntriesOf(fn, rawCards)]

\* the dedup Map: seen.has(key), if (!seen.has(key)) seen.set(key, value), and
\* Array.from(seen.values()).slice(0, limit)
MapHas(map, key) == \E i \in 1..Len(map) : map[i].key = key
\* seen.set(key, value) without the seen.has test: the value is replaced
SetAlways(map, entry) ==
  IF MapHas(map, entry.key)
  THEN [i \in 1..Len(map) |-> IF map[i].key = entry.key THEN entry ELSE map[i]]
  ELSE Append(map, entry)
SetIfAbsent(map, entry) == IF MapHas(map, entry.key) THEN map ELSE Append(map, entry)
RECURSIVE InsertAll(_, _)
InsertAll(map, entries) ==
  IF entries = <<>> THEN map
  ELSE InsertAll(SetIfAbsent(map, Head(entries)), Tail(entries))
MapValues(map) == [i \in 1..Len(map) |-> map[i].value]
\* Array.from(seen.values()) without the slice
NoSlice(records, limit) == records
Slice(records, limit) == SubSeq(records, 1, MinOf({limit, Len(records)}))

\* history: the entries of a batch that are the first ever offered under
\* their key, in batch order
AtIndexes(entries, I) ==
  [k \in 1..Cardinality(I) |-> entries[CHOOSE i \in I : Cardinality({j \in I : j < i}) = k - 1]]
FirstOffers(known, entries) ==
  AtIndexes(entries, {i \in 1..Len(entries) :
                        /\ ~MapHas(known, entries[i].key)
                        /\ \A j \in 1..(i - 1) : entries[j].key # entries[i].key})
\* history: an entry of the batch has the key of an earlier entry, of the batch
\* or of the Map, that holds another record
Shadows(known, entries) ==
  \E i \in 1..Len(entries) :
    \/ \E j \in 1..Len(known) : known[j].key = entries[i].key /\ known[j] # entries[i]
    \/ \E j \in 1..(i - 1) : entries[j].key = entries[i].key /\ entries[j] # entries[i]
History(entries) ==
  /\ firstSeen' = firstSeen \o FirstOffers(firstSeen, entries)
  /\ shadowed' = (shadowed \/ Shadows(firstSeen, entries))

\* the page.  A "live" page yields any batch in any round; a "feed" yields in
\* each round nothing or one card not seen before, until it has shown
\* FeedCards cards; any interaction with either may fail.  A "stable" page
\* yields one batch in every round and never fails.
Yields ==
  CASE page.kind = "live" -> RawBatches
    [] page.kind = "feed" ->
         {<<>>} \cup (IF Len(seen) < FeedCards THEN {<<NewCard(Len(seen) + 1)>>} ELSE {})
    [] page.kind = "stable" -> {page.batch}
Scrapes ==
  {[ok |-> TRUE, cards |-> b] : b \in Yields}
    \cup (IF page.kind = "stable" THEN {} ELSE {[ok |-> FALSE, cards |-> <<>>]})
Interactions == IF page.kind = "stable" THEN {TRUE} ELSE BOOLEAN
\* page.evaluate(...).catch(() => [])
Caught(scrape) == IF scrape.ok THEN scrape.cards ELSE <<>>

\* return Array.from(seen.values()).slice(0, limit)
Return == pc' = "done" /\ result' = Slice(MapValues(seen'), call.limit)

(***************************************************************************)
(* collectPeopleResultsByPageNumber: one page per round                    *)
(***************************************************************************)
\* pageNumber += 1; pageNumber <= maxPages
NextPage ==
  /\ pageNumber' = pageNumber + 1
  /\ IF pageNumber + 1 <= call.maxPages THEN pc' = "goto" /\ result' = result ELSE Return

\* await page.goto(pageUrl): not caught
collectPeopleGoto ==
  /\ call.fn = People /\ pc = "goto"
  /\ \E ok \in Interactions : pc' = IF ok THEN "scrape" ELSE "threw"
  /\ fetches' = fetches + 1
  /\ UNCHANGED <<call, page, seen, pageNumber, round, emptyPageStreak, stableRounds,
                 previousCount, result, firstSeen, shadowed, lastPages, OtherThanCol>>

\* if (seen.size >= limit) break, and with > for >=
LimitExceeded(size, limit) == size > limit
LimitReached(size, limit) == size >= limit

\* if (emptyPageStreak >= 2) break, and with one empty page enough
OneEmptyPage(streak) == streak >= 1
EmptyStreakReached(streak) == streak >= EmptyPageLimit

\* history: the last two pages, the latest last
LastTwo(pages) == IF Len(pages) > 2 THEN Tail(pages) ELSE pages

PeopleCollect(parsed) ==
  /\ History(parsed)
  /\ lastPages' = LastTwo(Append(lastPages, parsed = <<>>))
  /\ IF parsed = <<>>
     THEN /\ emptyPageStreak' = emptyPageStreak + 1
          /\ seen' = seen
          /\ IF EmptyStreakReached(emptyPageStreak + 1)
             THEN Return /\ pageNumber' = pageNumber
             ELSE NextPage
     ELSE /\ emptyPageStreak' = 0
          /\ seen' = InsertAll(seen, parsed)
          /\ IF LimitReached(Len(seen'), call.limit)
             THEN Return /\ pageNumber' = pageNumber
             ELSE NextPage

\* rawCards = await scrapeRawPeopleCards(page), once more if there are none
Rescraped(first, second) == IF Caught(first) = <<>> THEN Caught(second) ELSE Caught(first)

collectPeopleScrape ==
  /\ call.fn = People /\ pc = "scrape"
  /\ \E first \in Scrapes :
       \E second \in (IF Caught(first) = <<>> THEN Scrapes ELSE {first}) :
         PeopleCollect(Offered[People, Rescraped(first, second)])
  /\ UNCHANGED <<call, page, round, stableRounds, previousCount, fetches, OtherThanCol>>

(***************************************************************************)
(* The scroll collectors: one page.evaluate per round, then a scroll       *)
(***************************************************************************)
\* for (let round = 0; round < maxRounds; round += 1), and with <= for <
WithinRoundsInclusive(r, maxRounds) == r <= maxRounds
WithinRounds(r, maxRounds) == r < maxRounds
\* if (stableRounds >= threshold) break, and without the test
NeverStabilized(streak, threshold) == FALSE
Stabilized(streak, threshold) == streak >= threshold

\* if (seen.size === previousCount) stableRounds += 1; else stableRounds = 0,
\* and without the else
StreakNeverReset(streak, size, previous) == streak + 1
StreakAfter(streak, size, previous) == IF size = previous THEN streak + 1 ELSE 0

\* the round from page.evaluate(...).catch(() => []) to the break tests
Evaluate(entries, threshold) ==
  /\ History(entries)
  /\ seen' = InsertAll(seen, entries)
  /\ fetches' = fetches + 1
  /\ IF LimitReached(Len(seen'), call.limit)
     THEN Return /\ UNCHANGED <<stableRounds, previousCount>>
     ELSE /\ stableRounds' = StreakAfter(stableRounds, Len(seen'), previousCount)
          /\ previousCount' = Len(seen')
          /\ IF Stabilized(stableRounds', threshold)
             THEN Return
             ELSE pc' = "scroll" /\ result' = result
  /\ UNCHANGED <<call, page, pageNumber, round, emptyPageStreak, lastPages, OtherThanCol>>

\* await page.evaluate((pixels) => window.scrollBy(0, pixels), ...): not
\* caught; then round += 1 and the loop test
Scroll(maxRounds) ==
  /\ UNCHANGED <<call, page, seen, pageNumber, emptyPageStreak, stableRounds, previousCount,
                 fetches, firstSeen, shadowed, lastPages, OtherThanCol>>
  /\ \E ok \in Interactions :
       IF ~ok THEN pc' = "threw" /\ UNCHANGED <<round, result>>
       ELSE /\ round' = round + 1
            /\ IF WithinRounds(round + 1, maxRounds)
               THEN pc' = "evaluate" /\ result' = result
               ELSE Return

listPostsEvaluate ==
  /\ call.fn = "listPosts" /\ pc = "evaluate"
  /\ \E posts \in Scrapes : Evaluate(Offered["listPosts", Caught(posts)], ListPostsStableRounds)

listPostsScroll ==
  /\ call.fn = "listPosts" /\ pc = "scroll"
  /\ Scroll(ListPostsMaxRounds)

listConnectionsEvaluate ==
  /\ call.fn = "listConnections" /\ pc = "evaluate"
  /\ \E connections \in Scrapes :
       Evaluate(Offered["listConnections", Caught(connections)], ListConnectionsStableRounds)

listConnectionsScroll ==
  /\ call.fn = "listConnections" /\ pc = "scroll"
  /\ Scroll(ListConnectionsMaxRounds)

searchJobsEvaluate ==
  /\ call.fn = "searchJobs" /\ pc = "evaluate"
  /\ \E jobs \in Scrapes : Evaluate(Offered["searchJobs", Caught(jobs)], SearchJobsStableRounds)

searchJobsScroll ==
  /\ call.fn = "searchJobs" /\ pc = "scroll"
  /\ Scroll(SearchJobsMaxRounds)

\* the calls: the page collector as searchPeople (30 pages) and as
\* getMutualConnections (50 pages) call it, and the three scroll collectors,
\* with a positive limit (the callers return at once for a limit <= 0): a
\* small one, or one as large as the feed
Calls ==
  {[fn |-> People, limit |-> l, maxPages |-> m] :
     l \in 1..MaxLimit \cup {FeedCards}, m \in {DefaultMaxPages, MutualsMaxPages}}
  \cup {[fn |-> f, limit |-> l, maxPages |-> 0] :
          f \in LoopFns \ {People}, l \in 1..MaxLimit \cup {FeedCards}}

\* the state when the loop is entered
LoopEntry ==
  /\ call \in Calls
  /\ pc = IF call.fn = People THEN "goto" ELSE "evaluate"
  /\ seen = <<>> /\ pageNumber = 1 /\ round = 0
  /\ emptyPageStreak = 0 /\ stableRounds = 0 /\ previousCount = 0
  /\ result = <<>> /\ fetches = 0 /\ firstSeen = <<>> /\ shadowed = FALSE /\ lastPages = <<>>
  /\ nav = NavIdle /\ build = BuildIdle /\ intro = IntroIdle /\ auth = AuthIdle /\ profiles = ProfilesIdle /\ people = PeopleIdle /\ cardText = CardTextIdle /\ watch = WatchIdle /\ config = ConfigIdle

Init == LoopEntry /\ page \in {[kind |-> k, batch |-> <<>>] : k \in {"live", "feed"}}

Next ==
  \/ collectPeopleGoto
  \/ collectPeopleScrape
  \/ listPostsEvaluate
  \/ listPostsScroll
  \/ listConnectionsEvaluate
  \/ listConnectionsScroll
  \/ searchJobsEvaluate
  \/ searchJobsScroll

Spec == Init /\ [][Next]_vars

\* the scheduler runs a collection that can take a step
FairSpec == Spec /\ WF_vars(Next)

\* a page that yields the same N distinct normalizable records in every round
IsStableBatch(fn, batch) ==
  /\ Len(Offered[fn, batch]) = Len(batch)
  /\ \A i, j \in 1..Len(batch) : Offered[fn, batch][i].key = Offered[fn, batch][j].key => i = j

StableInit ==
  /\ LoopEntry
  /\ page \in {[kind |-> "stable", batch |-> b] : b \in RawBatches}
  /\ IsStableBatch(call.fn, page.batch)

StableSpec == StableInit /\ [][Next]_vars

\* the round cap and the stability threshold of the loop in progress
RoundCap ==
  CASE call.fn = People -> call.maxPages
    [] call.fn = "listPosts" -> ListPostsMaxRounds
    [] call.fn = "listConnections" -> ListConnectionsMaxRounds
    [] call.fn = "searchJobs" -> SearchJobsMaxRounds
StableThreshold ==
  CASE call.fn = "listPosts" -> ListPostsStableRounds
    [] call.fn = "listConnections" -> ListConnectionsStableRounds
    [] call.fn = "searchJobs" -> SearchJobsStableRounds
    [] OTHER -> 0
Ended == pc \in {"done", "threw"}

\* C2: every collection loop ends after at most its round cap, whatever the
\* page yields: it never starts more rounds than maxPages (30 or 50) pages,
\* 30 rounds in listPosts, 60 in listConnections and 15 in searchJobs, and it
\* does end (by returning; by an exception only where an interaction that the
\* code does not catch fails).
C2_LoopsEndWithinRoundCap == [](fetches <= RoundCap) /\ <>Ended

\* a loop that ran to its round cap with the limit not reached
C2_RanToRoundCap ==
  /\ pc = "done" /\ fetches = RoundCap /\ Len(seen) < call.limit
  /\ call.fn = "listConnections" /\ stableRounds < ListConnectionsStableRounds

ResultKey(i) == RecordKey(call.fn, result[i])

\* C3: the result of a collection loop has at most limit records, pairwise
\* distinct dedup keys, and lists the records in the order in which their
\* keys were first inserted: it is the first min(limit, keys) of them.
C3_ResultBoundedDistinctOrdered ==
  pc = "done" =>
    /\ Len(result) <= call.limit
    /\ \A i, j \in 1..Len(result) : ResultKey(i) = ResultKey(j) => i = j
    /\ Len(result) = MinOf({call.limit, Len(firstSeen)})
    /\ \A i \in 1..Len(result) : ResultKey(i) = firstSeen[i].key

\* a result cut to the limit, of a Map that was offered a duplicate
C3_TruncatedResult ==
  pc = "done" /\ Len(seen) > call.limit /\ Len(result) = 2 /\ shadowed

\* C4: a failure of a per-round page interaction (navigation, extraction,
\* scrolling) is treated as an empty batch, and the collection never ends
\* with an exception.  The code catches only the extraction.
C4_NoLoopEndsWithException == pc # "threw"

\* C6: once a key is in the dedup Map, the record under it never changes in a
\* later step or round, and the record returned for a key is the first one
\* seen under it.
C6_FirstSeenRecordWins ==
  [][/\ \A i \in 1..Len(seen) : i <= Len(seen') /\ seen'[i] = seen[i]
     /\ pc' = "done" =>
          \A i \in 1..Len(result') :
            \E j \in 1..Len(firstSeen') :
              /\ firstSeen'[j].key = RecordKey(call.fn, result'[i])
              /\ firstSeen'[j].value = result'[i]]_vars

\* a later record with the key of a stored one was offered, and a result returned
C6_LaterRecordIgnored == pc = "done" /\ shadowed /\ Len(result) >= 1

\* the N records of the stable page
StableRecords == MapValues(Offered[call.fn, page.batch])
\* the streak rule that ends a loop whose limit is out of reach: the stability
\* streak in the scroll collectors; the page collector has only its
\* empty-page streak
StreakTriggered ==
  IF call.fn = People THEN emptyPageStreak >= EmptyPageLimit
  ELSE stableRounds >= StableThreshold

tokenize(value) ==
  LET pieces == SplitOn([i \in 1..Len(value) |->
                           LET c == ToLowerChar(value[i])
                           IN IF IsAlnum(c) \/ IsSpace(c) THEN c ELSE " "],
                        {" ", "\t", "\n"})
  IN SelectSeq([i \in 1..Len(pieces) |-> Trim(pieces[i])], LAMBDA token : Len(token) > 2)

\* for (const token of aTokens) if (bTokens.has(token)) count += 1
CountShared(aTokens, bTokens) == Cardinality(aTokens \cap bTokens)

sharedTokenCount(a, b) ==
  IF a = <<>> \/ b = <<>> THEN 0
  ELSE CountShared(SeqRange(tokenize(a)), SeqRange(tokenize(b)))

\* the degree bonus with 15 for a first-degree connection as well
SameDegreeBonus(connectionDegree) ==
  IF StartsWith(connectionDegree, <<"1">>) \/ StartsWith(connectionDegree, <<"2">>)
  THEN 15 ELSE 0

\* connectionDegree.startsWith("1") -> 30, startsWith("2") -> 15
DegreeBonus(connectionDegree) ==
  IF StartsWith(connectionDegree, <<"1">>) THEN 30
  ELSE IF StartsWith(connectionDegree, <<"2">>) THEN 15
  ELSE 0

\* the headline bonus without Math.min(20, ...)
UncappedHeadlineBonus(sharedHeadline) == sharedHeadline * 4

\* if (sharedHeadline > 0) score += Math.min(20, sharedHeadline * 4)
HeadlineBonus(sharedHeadline) ==
  IF sharedHeadline > 0 THEN MinOf({20, sharedHeadline * 4}) ELSE 0

\* the location bonus without Math.min(15, ...)
UncappedLocationBonus(sharedLocation) == sharedLocation * 5

\* if (sharedLocation > 0) score += Math.min(15, sharedLocation * 5)
LocationBonus(sharedLocation) ==
  IF sharedLocation > 0 THEN MinOf({15, sharedLocation * 5}) ELSE 0

\* the rationale with the penalty line pushed for every mutual
RationaleAlwaysPenalty(mutual, sharedHeadline, sharedLocation) ==
  <<[line |-> "Connection degree is not explicit.", count |-> 0],
    [line |-> "Limited headline context available.", count |-> 0]>>

\* the lines pushed to rationale; count is the number a line quotes, 0 in a
\* line that quotes none
Rationale(mutual, sharedHeadline, sharedLocation) ==
  <<[line |-> IF StartsWith(mutual.connectionDegree, <<"1">>)
              THEN "Mutual appears as a first-degree connection."
              ELSE IF StartsWith(mutual.connectionDegree, <<"2">>)
              THEN "Mutual appears as a second-degree connection."
              ELSE "Connection degree is not explicit.", count |-> 0]>>
  \o (IF sharedHeadline > 0
      THEN <<[line |-> "Shared headline context tokens: .", count |-> sharedHeadline]>>
      ELSE <<>>)
  \o (IF sharedLocation > 0
      THEN <<[line |-> "Shared location context tokens: .", count |-> sharedLocation]>>
      ELSE <<>>)
  \o (IF mutual.headline = <<>>
      THEN <<[line |-> "Limited headline context available.", count |-> 0]>>
      ELSE <<>>)

\* the object the callback of mutuals.map returns for the mutual at index
\* input of the array; input stands for the identity of the object
Scored(sourceProfileUrl, target, mutual, input, sharedHeadline, sharedLocation) ==
  [score |-> 40 + DegreeBonus(mutual.connectionDegree) + HeadlineBonus(sharedHeadline)
             + LocationBonus(sharedLocation) - (IF mutual.headline = <<>> THEN 5 ELSE 0),
   rationale |-> Rationale(mutual, sharedHeadline, sharedLocation),
   sourceProfileUrl |-> sourceProfileUrl,
   via |-> mutual,
   targetProfileUrl |-> target.profileUrl,
   targetName |-> target.name,
   path |-> <<sourceProfileUrl, mutual.profileUrl, target.profileUrl>>,
   input |-> input]

IntroTargets ==
  {[name |-> <<"T","a","r","g","e","t">>,
    headline |-> <<"P","a","r","t","n","e","r"," ","a","t"," ","A","l","p","h","a"," ","V","e","n","t","u","r","e","s">>,
    location |-> <<"S","a","n"," ","F","r","a","n","c","i","s","c","o"," ","B","a","y"," ","A","r","e","a">>,
    profileUrl |-> LinkedInOrigin \o <<"/","i","n","/","t","a","r","g","e","t","/">>],
   [name |-> <<"O","p","s">>,
    headline |-> <<"d","e","v"," ","o","p","s"," ","s","r","e"," ","a","w","s"," ","g","c","p"," ","k","8","s"," ","s","q","l">>,
    location |-> <<"n","y","c"," ","u","s","a"," ","n","e","w"," ","y","o","r","k">>,
    profileUrl |-> LinkedInOrigin \o <<"/","i","n","/","o","p","s","/">>],
   [name |-> <<"N","i","l">>,
    headline |-> <<>>,
    location |-> <<>>,
    profileUrl |-> LinkedInOrigin \o <<"/","i","n","/","n","i","l","/">>]}

IntroMutuals ==
  {[name |-> <<"B","o">>, connectionDegree |-> <<"2","n","d">>,
    headline |-> <<"D","e","s","i","g","n","e","r">>,
    location |-> <<"A","u","s","t","i","n",","," ","T","e","x","a","s">>,
    profileUrl |-> LinkedInOrigin \o <<"/","i","n","/","b","o","/">>],
   [name |-> <<"a","l">>, connectionDegree |-> <<"1","s","t">>,
    headline |-> <<"P","a","r","t","n","e","r"," ","a","t"," ","A","l","p","h","a"," ","V","e","n","t","u","r","e","s">>,
    location |-> <<"S","a","n"," ","F","r","a","n","c","i","s","c","o",","," ","C","a","l","i","f","o","r","n","i","a">>,
    profileUrl |-> LinkedInOrigin \o <<"/","i","n","/","a","l","/">>],
   [name |-> <<"A","l">>, connectionDegree |-> <<"1","s","t">>,
    headline |-> <<>>,
    location |-> <<>>,
    profileUrl |-> LinkedInOrigin \o <<"/","i","n","/","a","1","/">>],
   [name |-> <<"a","l">>, connectionDegree |-> <<"1","s","t">>,
    headline |-> <<>>,
    location |-> <<>>,
    profileUrl |-> LinkedInOrigin \o <<"/","i","n","/","a","2","/">>],
   [name |-> <<"A","l">>, connectionDegree |-> <<"1","s","t">>,
    headline |-> <<>>,
    location |-> <<>>,
    profileUrl |-> LinkedInOrigin \o <<"/","i","n","/","a","3","/">>],
   [name |-> <<"C","y">>, connectionDegree |-> <<"3","r","d">>,
    headline |-> <<"D","E","V","-","O","P","S"," ","S","R","E"," ","(","a","w","s","/","g","c","p",")"," ","k","8","s",","," ","S","Q","L">>,
    location |-> <<"N","Y","C","/","U","S","A",":"," ","N","e","w"," ","Y","o","r","k">>,
    profileUrl |-> LinkedInOrigin \o <<"/","i","n","/","c","y","/">>],
   [name |-> <<"D","i">>, connectionDegree |-> <<"u","n","k","n","o","w","n">>,
    headline |-> <<" ">>,
    location |-> <<"T","e","x","a","s">>,
    profileUrl |-> LinkedInOrigin \o <<"/","i","n","/","d","i","/">>],
   [name |-> <<"a","1">>, connectionDegree |-> <<"2","n","d">>,
    headline |-> <<"A","l","p","h","a">>,
    location |-> <<"B","a","y"," ","A","r","e","a">>,
    profileUrl |-> LinkedInOrigin \o <<"/","i","n","/","a","4","/">>],
   [name |-> <<"E","d">>, connectionDegree |-> <<"1","s","t">>,
    headline |-> <<"d","e","v"," ","o","p","s"," ","s","r","e"," ","a","w","s"," ","g","c","p">>,
    location |-> <<"n","y","c"," ","u","s","a"," ","n","e","w"," ","y","o","r","k">>,
    profileUrl |-> LinkedInOrigin \o <<"/","i","n","/","e","d","/">>],
   [name |-> <<"F","y">>, connectionDegree |-> <<>>,
    headline |-> <<>>,
    location |-> <<"N","Y","C">>,
    profileUrl |-> LinkedInOrigin \o <<"/","i","n","/","f","y","/">>]}

\* -1, 0 or 1 as the sequence of numbers x comes before, equals or comes after
\* y: at the first index where they differ, else the shorter first
LexCompare(x, y) ==
  LET d == {i \in 1..MinOf({Len(x), Len(y)}) : x[i] # y[i]}
  IN IF d = {} THEN (IF Len(x) < Len(y) THEN -1 ELSE IF Len(x) > Len(y) THEN 1 ELSE 0)
     ELSE IF x[MinOf(d)] < y[MinOf(d)] THEN -1 ELSE 1

\* the primary collation weight of a character of a name: the space before
\* the digits, the digits before the letters, a letter with either case alike
PrimaryWeight(c) ==
  IF c = " " THEN 0
  ELSE IF c \in SeqRange(DigitChars) THEN CHOOSE i \in 1..10 : DigitChars[i] = c
  ELSE 10 + (CHOOSE i \in 1..26 : LowerChars[i] = ToLowerChar(c))

\* String.prototype.localeCompare in the root collation, on names of letters,
\* digits and spaces: by primary weights, and between names of the same
\* primary weights the one with the lower-case letter first where they differ
localeCompare(a, b) ==
  LET primary == LexCompare([i \in 1..Len(a) |-> PrimaryWeight(a[i])],
                            [i \in 1..Len(b) |-> PrimaryWeight(b[i])])
  IN IF primary # 0 THEN primary
     ELSE LexCompare([i \in 1..Len(a) |-> IF IsUpper(a[i]) THEN 1 ELSE 0],
                     [i \in 1..Len(b) |-> IF IsUpper(b[i]) THEN 1 ELSE 0])

\* the comparator without the localeCompare of the names
CompareScoreOnly(a, b) == b.score - a.score

\* (a, b) => b.score - a.score || a.via.name.localeCompare(b.via.name)
CompareFn(a, b) ==
  IF b.score - a.score # 0 THEN b.score - a.score
  ELSE localeCompare(a.via.name, b.via.name)

\* Array.prototype.sort is stable: an element goes after the elements before
\* it in the array that do not compare greater than it
InsertSorted(sorted, x) ==
  LET k == Cardinality({i \in 1..Len(sorted) : CompareFn(sorted[i], x) <= 0})
  IN Take(sorted, k) \o <<x>> \o Drop(sorted, k)

RECURSIVE SortFrom(_, _)
SortFrom(sorted, rest) ==
  IF rest = <<>> THEN sorted ELSE SortFrom(InsertSorted(sorted, Head(rest)), Tail(rest))

buildWarmIntroPathsFromMutuals(sourceProfileUrl, target, mutuals) ==
  SortFrom(<<>>, [i \in 1..Len(mutuals) |->
                    Scored(sourceProfileUrl, target, mutuals[i], i,
                           sharedTokenCount(mutuals[i].headline, target.headline),
                           sharedTokenCount(mutuals[i].location, target.location))])

MaxMutuals == 3

IntroInit ==
  /\ intro \in {[pc |-> "call", sourceProfileUrl |-> LinkedInOrigin \o <<"/","i","n","/","m","e","/">>,
                 target |-> t, mutuals |-> m, paths |-> <<>>] :
                t \in IntroTargets, m \in {<<>>} \cup TextsUpTo(IntroMutuals, MaxMutuals)}
  /\ nav = NavIdle /\ build = BuildIdle /\ auth = AuthIdle /\ profiles = ProfilesIdle /\ people = PeopleIdle /\ cardText = CardTextIdle /\ watch = WatchIdle /\ config = ConfigIdle
  /\ ColIdle

BuildWarmIntroPaths ==
  /\ intro.pc = "call"
  /\ intro' = [intro EXCEPT !.pc = "returned",
                            !.paths = buildWarmIntroPathsFromMutuals(
                                        intro.sourceProfileUrl, intro.target, intro.mutuals)]
  /\ UNCHANGED OtherThanIntro

IntroSpec == IntroInit /\ [][BuildWarmIntroPaths]_vars

(***************************************************************************)
(* The warm intro paths returned.                                          *)
(***************************************************************************)
FirstDegree == <<"1","s","t">>
SecondDegree == <<"2","n","d">>
\* sharedTokenCount of a mutual's headline or location with a target's
SharedTokens ==
  [a \in {m.headline : m \in IntroMutuals} \cup {m.location : m \in IntroMutuals},
   b \in {t.headline : t \in IntroTargets} \cup {t.location : t \in IntroTargets} |->
     sharedTokenCount(a, b)]
SharedHeadline(mutual) == SharedTokens[mutual.headline, intro.target.headline]
SharedLocation(mutual) == SharedTokens[mutual.location, intro.target.location]

\* 40 + D + H + L - P for a mutual
ScoreParts(mutual) ==
  40 + (IF mutual.connectionDegree = FirstDegree THEN 30
        ELSE IF mutual.connectionDegree = SecondDegree THEN 15 ELSE 0)
     + MinOf({20, 4 * SharedHeadline(mutual)})
     + MinOf({15, 5 * SharedLocation(mutual)})
     - (IF mutual.headline = <<>> THEN 5 ELSE 0)

\* C7: buildWarmIntroPathsFromMutuals gives every mutual m the score
\* 40 + D + H + L - P, where D is 30 if m is first-degree, 15 if second-degree
\* and 0 otherwise, H = min(20, 4 * sharedTokenCount(m.headline, t.headline)),
\* L = min(15, 5 * sharedTokenCount(m.location, t.location)), and P is 5 if
\* m.headline is empty and 0 otherwise.
C7_ScoreIsSumOfParts ==
  intro.pc = "returned" =>
    \A k \in 1..Len(intro.mutuals) :
      \E i \in 1..Len(intro.paths) :
        /\ intro.paths[i].input = k
        /\ intro.paths[i].via = intro.mutuals[k]
        /\ intro.paths[i].score = ScoreParts(intro.mutuals[k])

\* paths returned for a mutual whose shared tokens exceed both caps and for a
\* first-degree mutual with no headline
C7_CapsAndPenaltyApplied ==
  /\ intro.pc = "returned"
  /\ \E i \in 1..Len(intro.paths) :
       /\ 4 * SharedHeadline(intro.paths[i].via) > 20
       /\ 5 * SharedLocation(intro.paths[i].via) > 15
       /\ intro.paths[i].score = 75
  /\ \E i \in 1..Len(intro.paths) :
       /\ intro.paths[i].via.headline = <<>>
       /\ intro.paths[i].via.connectionDegree = FirstDegree
       /\ intro.paths[i].score = 65

\* C8: the output holds exactly one path per input mutual, in descending
\* order of score; paths of equal score are in ascending order of the
\* comparison of the mutuals' names, and paths equal in score and name are in
\* their input order.
C8_OnePathPerMutualRanked ==
  intro.pc = "returned" =>
    /\ Len(intro.paths) = Len(intro.mutuals)
    /\ {intro.paths[i].input : i \in 1..Len(intro.paths)} = 1..Len(intro.mutuals)
    /\ \A i \in 1..Len(intro.paths) : intro.paths[i].via = intro.mutuals[intro.paths[i].input]
    /\ \A i, j \in 1..Len(intro.paths) :
         i < j =>
           /\ intro.paths[i].score >= intro.paths[j].score
           /\ intro.paths[i].score = intro.paths[j].score =>
                /\ localeCompare(intro.paths[i].via.name, intro.paths[j].via.name) <= 0
                /\ localeCompare(intro.paths[i].via.name, intro.paths[j].via.name) = 0 =>
                     intro.paths[i].input < intro.paths[j].input

\* three paths of one score: the second mutual first by its name, then the
\* first and the third, of one name, in their input order
C8_TieBrokenByNameThenInput ==
  /\ intro.pc = "returned" /\ Len(intro.paths) = 3
  /\ intro.paths[1].score = intro.paths[3].score
  /\ <<intro.paths[1].input, intro.paths[2].input, intro.paths[3].input>> = <<2, 1, 3>>
  /\ intro.paths[1].via.name # intro.paths[2].via.name
  /\ intro.paths[2].via.name = intro.paths[3].via.name
  /\ intro.paths[2].via # intro.paths[3].via

\* B is first-degree, A is not, and B shares at least as many headline
\* tokens and location tokens with the target as A
Outranks(B, A) ==
  /\ B.connectionDegree = FirstDegree /\ A.connectionDegree # FirstDegree
  /\ SharedHeadline(B) >= SharedHeadline(A)
  /\ SharedLocation(B) >= SharedLocation(A)

\* C9: for two mutuals A and B of the input where B is first-degree, A is
\* not, and B shares at least as many headline tokens and location tokens
\* with the target as A: B's score is strictly greater than A's, B's path
\* comes before A's, and B's path is
\* [sourceProfileUrl, B.profileUrl, target.profileUrl].
C9_FirstDegreeOutranks ==
  intro.pc = "returned" =>
    \A i, j \in 1..Len(intro.paths) :
      Outranks(intro.paths[i].via, intro.paths[j].via) =>
        /\ intro.paths[i].score > intro.paths[j].score
        /\ i < j
        /\ intro.paths[i].path = <<intro.sourceProfileUrl, intro.paths[i].via.profileUrl,
                                   intro.target.profileUrl>>

\* B, after A in the input and with no headline, is first, 10 points ahead
C9_NarrowestLeadMovedFirst ==
  /\ intro.pc = "returned"
  /\ \E i, j \in 1..Len(intro.paths) :
       /\ Outranks(intro.paths[i].via, intro.paths[j].via)
       /\ intro.paths[i].input > intro.paths[j].input /\ i < j
       /\ intro.paths[i].score = intro.paths[j].score + 10

(***************************************************************************)
(* The values the URL builders return.                                     *)
(***************************************************************************)
\* prefix \o segment \o "/" for one non-empty segment without "/", "?" or "#"
OneSegmentUnder(value, prefix) ==
  /\ StartsWith(value, prefix) /\ EndsWith(value, <<"/">>)
  /\ Len(value) > Len(prefix) + 1
  /\ \A i \in (Len(prefix) + 1)..(Len(value) - 1) : value[i] \notin {"/", "?", "#"}

\* C11: whenever buildProfileUrl returns a value, the value is exactly
\* https://www.linkedin.com/in/<vanity>/ for one non-empty path segment
\* <vanity>, with no query string and no fragment.  The code returns a bare
\* identifier pasted into the URL as it is, with its "/", "?" and "#".
C11_BuiltProfileUrlShape ==
  (build.fn = "buildProfileUrl" /\ build.pc = "built" /\ build.first.ok)
    => OneSegmentUnder(build.first.value, LinkedInOrigin \o <<"/">> \o InSeg \o <<"/">>)

Contains(s, p) == \E i \in 1..Len(s) : OccursAt(s, p, i)

\* https://www.linkedin.com/feed/update/urn:li:activity:<d>/
PostUrlFor(d) == LinkedInOrigin \o FeedUpdate \o UrnActivity \o d \o <<"/">>

\* the input is an absolute URL that parses, and its path satisfies InPath
IsUrlWithPath(input, InPath(_)) ==
  /\ StartsWith(input, HttpPrefix) \/ StartsWith(input, HttpsPrefix)
  /\ ParseURL(input, FALSE).ok
  /\ InPath(ParseURL(input, FALSE).pathname)

\* "activity:" or "activity-" and a digit at index j of the path
ActivityTokenAt(path, j) ==
  /\ \E sep \in {":", "-"} : OccursAt(ToLowerCase(path), ActivityWord \o <<sep>>, j)
  /\ j + 9 <= Len(path) /\ path[j + 9] \in SeqRange(DigitChars)

\* the first "activity:" or "activity-" followed by a digit in the path is
\* followed by exactly the digits d
FirstActivityTokenIs(path, d) ==
  \E i \in 1..Len(path) :
    /\ \E sep \in {":", "-"} : OccursAt(path, ActivityWord \o <<sep>> \o d, i)
    /\ i + 9 + Len(d) <= Len(path) => path[i + 9 + Len(d)] \notin SeqRange(DigitChars)
    /\ \A j \in 1..(i - 1) : ~ActivityTokenAt(path, j)

NoDigitIn(s) == \A i \in 1..Len(s) : s[i] \notin SeqRange(DigitChars)

RECURSIVE FormDecode(_)
FormDecode(s) ==
  IF s = <<>> THEN <<>>
  ELSE IF s[1] = "+" THEN <<" ">> \o FormDecode(Tail(s))
  ELSE IF s[1] = "%" /\ \E k \in 1..Len(FormCodes) : StartsWith(s, FormCodes[k][2])
  THEN <<FormCodes[CHOOSE k \in 1..Len(FormCodes) : StartsWith(s, FormCodes[k][2])][1]>>
         \o FormDecode(Drop(s, 3))
  ELSE <<s[1]>> \o FormDecode(Tail(s))

\* the [name, value] pairs of a search string "?a=b&c=d"
SearchParams(search) ==
  LET pairs == SelectSeq(SplitOn(Drop(search, 1), {"&"}), LAMBDA p : p # <<>>)
  IN [i \in 1..Len(pairs) |->
        [name |-> FormDecode(UpTo(pairs[i], {"="})),
         value |-> FormDecode(Drop(pairs[i], MinOf({Len(pairs[i]), Len(UpTo(pairs[i], {"="})) + 1})))]]

\* searchParams.get(name): the values under the name, in order (none for null)
ParamValues(params, name) ==
  [i \in 1..Len(SelectSeq(params, LAMBDA p : p.name = name)) |->
     SelectSeq(params, LAMBDA p : p.name = name)[i].value]

BuiltParams(name) == ParamValues(SearchParams(ParseURL(build.first.value, FALSE).search), name)

\* the JSON array of the codes of the degrees, in their order
RECURSIVE CodesJson(_)
CodesJson(network) ==
  IF network = <<>> THEN <<>>
  ELSE <<"\"", (IF Head(network) = "1" THEN "F" ELSE IF Head(network) = "2" THEN "S" ELSE "O"),
         "\"">>
       \o (IF Len(network) > 1 THEN <<",">> ELSE <<>>) \o CodesJson(Tail(network))

isLinkedInDomain(domain) ==
  (IF StartsWith(domain, <<".">>) THEN Tail(domain) ELSE domain) = LinkedInHost
    \/ EndsWith(IF StartsWith(domain, <<".">>) THEN Tail(domain) ELSE domain, DotLinkedInHost)

\* state.cookies.find(cookie => cookie.name === "li_at" && isLinkedInDomain(cookie.domain)):
\* the index of the cookie, 0 for undefined
FindLiAt(cookies) ==
  LET found == {i \in 1..Len(cookies) :
                  cookies[i].name = "li_at" /\ isLinkedInDomain(cookies[i].domain)}
  IN IF found = {} THEN 0 ELSE MinOf(found)

MsPerSecond == 1000

NeverExpired(expires, now) == FALSE

\* meta.expires >= 0 && meta.expires * 1000 < Date.now()
Expired(expires, now) == expires >= 0 /\ expires * MsPerSecond < now

\* checkSessionExpiry returns (TRUE) or throws (FALSE): readFile rejects on an
\* unreadable file, loadStorageState gives null for a missing or malformed one
SessionLive(file, now, liAt) ==
  /\ file.kind = "state"
  /\ liAt # 0
  /\ ~Expired(file.cookies[liAt].expires, now)

MaxCookies == 2
MaxTicks == 4

SampleCookies ==
  {[name |-> "li_at", domain |-> DotLinkedInHost, expires |-> e] : e \in {-1, 0, 1, 2}}
  \cup {[name |-> "li_at", domain |-> WwwLinkedInHost, expires |-> 2],
        [name |-> "li_at", domain |-> <<"x","-">> \o LinkedInHost, expires |-> -1],
        [name |-> "JSESSIONID", domain |-> DotLinkedInHost, expires |-> -1]}

SessionFiles ==
  {[kind |-> k, cookies |-> <<>>] : k \in {"absent", "unreadable", "invalidJson", "badSchema"}}
  \cup {[kind |-> "state", cookies |-> c] :
          c \in {<<>>} \cup TextsUpTo(SampleCookies, MaxCookies)}

\* if (!(await sessionExists())) throw
launchSessionExists ==
  /\ auth.pc = "call"
  /\ auth' = [auth EXCEPT !.pc = IF auth.file.kind = "absent" THEN "threw" ELSE "expiry",
                          !.existed = auth.file.kind # "absent"]
  /\ UNCHANGED OtherThanAuth

\* await checkSessionExpiry()
checkSessionExpiry ==
  /\ auth.pc = "expiry"
  /\ auth' = [auth EXCEPT
       !.pc = IF SessionLive(auth.file, auth.now, FindLiAt(auth.file.cookies))
              THEN "launch" ELSE "threw",
       !.held = /\ auth.file.kind = "state"
                /\ \E i \in 1..Len(auth.file.cookies) :
                     /\ auth.file.cookies[i].name = "li_at"
                     /\ isLinkedInDomain(auth.file.cookies[i].domain)
                     /\ (auth.file.cookies[i].expires < 0
                           \/ auth.file.cookies[i].expires * 1000 >= auth.now)]
  /\ UNCHANGED OtherThanAuth

\* await launchBrowser(browser, headless), which may fail
launchBrowser ==
  /\ auth.pc = "launch"
  /\ \E ok \in BOOLEAN :
       auth' = [auth EXCEPT !.pc = IF ok THEN "context" ELSE "threw", !.launched = ok]
  /\ UNCHANGED OtherThanAuth

\* newContext({ storageState: path }) and newPage(); on an error the browser
\* is closed and the error rethrown
newContext ==
  /\ auth.pc = "context"
  /\ \E ok \in BOOLEAN :
       auth' = [auth EXCEPT
         !.pc = IF ok /\ auth.file.kind = "state" THEN "returned" ELSE "threw",
         !.closed = ~(ok /\ auth.file.kind = "state")]
  /\ UNCHANGED OtherThanAuth

\* `auth logout` meanwhile: fs.rm(STORAGE_STATE_PATH) if the file exists
clearStorageState ==
  /\ auth.pc \in {"call", "expiry", "launch", "context"}
  /\ auth.file.kind # "absent"
  /\ auth' = [auth EXCEPT !.file = [kind |-> "absent", cookies |-> <<>>]]
  /\ UNCHANGED OtherThanAuth

\* half a second passes
Tick ==
  /\ auth.pc \in {"call", "expiry", "launch", "context"}
  /\ auth.now < MaxTicks * 500
  /\ auth' = [auth EXCEPT !.now = auth.now + 500]
  /\ UNCHANGED OtherThanAuth

AuthInit ==
  /\ auth \in {[AuthIdle EXCEPT !.pc = "call", !.file = f, !.now = 500] : f \in SessionFiles}
  /\ nav = NavIdle /\ build = BuildIdle /\ intro = IntroIdle /\ profiles = ProfilesIdle /\ people = PeopleIdle /\ cardText = CardTextIdle /\ watch = WatchIdle /\ config = ConfigIdle
  /\ ColIdle

AuthNext ==
  \/ launchSessionExists
  \/ checkSessionExpiry
  \/ launchBrowser
  \/ newContext
  \/ clearStorageState
  \/ Tick

AuthSpec == AuthInit /\ [][AuthNext]_vars

\* C14: launchAuthenticatedContext launches a browser only after it has
\* found that the session file exists and that it holds a LinkedIn li_at
\* cookie that is not expired at that moment; in every other case (no
\* session, unreadable or malformed file, no li_at, expired li_at) it fails
\* with an error and no browser is launched.
C14_LaunchOnlyWithLiveSession ==
  /\ auth.launched => (auth.existed /\ auth.held)
  /\ (auth.pc \in {"returned", "threw"} /\ ~(auth.existed /\ auth.held))
       => (auth.pc = "threw" /\ ~auth.launched)

\* a context returned for a cookie checked in the last millisecond of its life
C14_LaunchedAtExpiryInstant ==
  /\ auth.pc = "returned" /\ auth.launched /\ ~auth.closed
  /\ auth.now = 2000
  /\ auth.file.cookies = <<[name |-> "li_at", domain |-> DotLinkedInHost, expires |-> 2]>>

(***************************************************************************)
(* `batch profiles`.  profiles.lines is raw.split("\n"), profiles.limit    *)
(* the parsed --limit, profiles.cache whether the cache is in use.  One    *)
(* step per await of the action; visited is the history of the URLs the    *)
(* loop has taken, in order.                                               *)
(***************************************************************************)
\* [...new Set(xs)]: the first occurrence of each value, in order
UniqueInOrder(xs) ==
  LET F[i \in 0..Len(xs)] ==
        IF i = 0 THEN <<>>
        ELSE IF \E j \in 1..(i - 1) : xs[j] = xs[i] THEN F[i - 1]
        ELSE Append(F[i - 1], xs[i])
  IN F[Len(xs)]

\* .map(line => line.trim()).filter(line => line && !line.startsWith("#"))
UrlLines(lines) ==
  SelectSeq([i \in 1..Len(lines) |-> Trim(lines[i])],
            LAMBDA line : line # <<>> /\ ~StartsWith(line, <<"#">>))

\* [...new Set(...)].slice(0, limit)
UrlsOfFile(lines, limit) == Slice(UniqueInOrder(UrlLines(lines)), limit)

MaxLines == 3

SampleLines ==
  {<<"a">>, <<" ", "a", " ">>, <<"b">>, <<"c">>, <<"#", "a">>, <<" ", "#">>, <<" ">>, <<>>}

\* the list of URLs is read; an empty list ends the command
ReadUrlFile ==
  /\ profiles.pc = "read"
  /\ profiles' = [profiles EXCEPT
       !.urls = UrlsOfFile(profiles.lines, profiles.limit),
       !.pc = IF UrlsOfFile(profiles.lines, profiles.limit) = <<>> THEN "done" ELSE "launch"]
  /\ UNCHANGED OtherThanProfiles

\* launchAuthenticatedContext and assertAuthenticated; an error leaves the
\* action and main().catch sets the exit code
LaunchForBatch ==
  /\ profiles.pc = "launch"
  /\ \E ok \in BOOLEAN :
       profiles' = [profiles EXCEPT !.pc = IF ok THEN "loop" ELSE "threw",
                                    !.exitCode = IF ok THEN 0 ELSE 1]
  /\ UNCHANGED OtherThanProfiles

\* what one iteration can meet: a cache hit, a scrape that succeeds (and, with
\* the cache in use, a cache write that succeeds or fails), a scrape that fails
ScrapeOutcomes(cache) ==
  {"scraped", "scrapeFailed"} \cup (IF cache THEN {"cached", "cacheWriteFailed"} ELSE {})

\* results.push(cached) or results.push(result); a failed scrape pushes nothing
PushedResult(results, url, outcome) ==
  IF outcome = "scrapeFailed" THEN results
  ELSE Append(results, [url |-> url, cached |-> outcome = "cached"])

\* catch (err) { failures.push({ url, error }) }: the try holds getProfile and setCache
PushedFailure(failures, url, outcome) ==
  IF outcome \in {"scrapeFailed", "cacheWriteFailed"} THEN Append(failures, [url |-> url])
  ELSE failures

\* one iteration of for (const [index, url] of urls.entries())
ProcessUrl ==
  /\ profiles.pc = "loop"
  /\ Len(profiles.visited) < Len(profiles.urls)
  /\ \E outcome \in ScrapeOutcomes(profiles.cache) :
       profiles' = [profiles EXCEPT
         !.visited = Append(@, profiles.urls[Len(profiles.visited) + 1]),
         !.results = PushedResult(@, profiles.urls[Len(profiles.visited) + 1], outcome),
         !.failures = PushedFailure(@, profiles.urls[Len(profiles.visited) + 1], outcome)]
  /\ UNCHANGED OtherThanProfiles

\* after the loop: outputResult (which may fail on its output path), then
\* process.exitCode = 1 if failures.length > 0
OutputBatch ==
  /\ profiles.pc = "loop"
  /\ Len(profiles.visited) = Len(profiles.urls)
  /\ \E ok \in BOOLEAN :
       profiles' = [profiles EXCEPT
         !.pc = IF ok THEN "done" ELSE "threw",
         !.exitCode = IF ok /\ profiles.failures = <<>> THEN 0 ELSE 1]
  /\ UNCHANGED OtherThanProfiles

ProfilesInit ==
  /\ profiles \in {[ProfilesIdle EXCEPT !.pc = "read", !.lines = f, !.limit = n, !.cache = c] :
                     f \in {<<>>} \cup TextsUpTo(SampleLines, MaxLines),
                     n \in 1..MaxLines, c \in BOOLEAN}
  /\ nav = NavIdle /\ build = BuildIdle /\ intro = IntroIdle /\ auth = AuthIdle
  /\ people = PeopleIdle /\ cardText = CardTextIdle /\ watch = WatchIdle /\ config = ConfigIdle
  /\ ColIdle

ProfilesNext == ReadUrlFile \/ LaunchForBatch \/ ProcessUrl \/ OutputBatch

ProfilesSpec == ProfilesInit /\ [][ProfilesNext]_vars

\* how many entries of a list are about the URL
EntriesFor(entries, url) == Cardinality({i \in 1..Len(entries) : entries[i].url = url})

\* the trimmed lines that are URLs, by their first position in the file
IsUrlLine(line) == Trim(line) # <<>> /\ Head(Trim(line)) # "#"

FirstUrlLines(lines) ==
  {i \in 1..Len(lines) :
     IsUrlLine(lines[i]) /\ \A j \in 1..(i - 1) : Trim(lines[j]) # Trim(lines[i])}

\* C15: when a run of `batch profiles` ends, the URLs it processed are the
\* distinct non-comment URLs of the file, up to --limit, each once and in
\* file order (so a failure on one did not stop the later ones); each of
\* them has exactly one entry in results and failures together; and the
\* exit code is 1 exactly when failures is non-empty.
C15_EveryUrlOnceAndAccounted ==
  (profiles.pc = "done") =>
    /\ Len(profiles.visited) = MinOf({profiles.limit, Cardinality(FirstUrlLines(profiles.lines))})
    /\ \A k \in 1..Len(profiles.visited) :
         \E i \in FirstUrlLines(profiles.lines) :
           /\ profiles.visited[k] = Trim(profiles.lines[i])
           /\ Cardinality({j \in FirstUrlLines(profiles.lines) : j < i}) = k - 1
    /\ \A k \in 1..Len(profiles.visited) :
         EntriesFor(profiles.results, profiles.visited[k])
           + EntriesFor(profiles.failures, profiles.visited[k]) = 1
    /\ (profiles.exitCode = 1) <=> (profiles.failures # <<>>)

(***************************************************************************)
(* searchPeople, from its call to the merged list (the location and degree *)
(* filters and the final slice that follow read only that list).  Each     *)
(* sub-collection is a run of collectPeopleResultsByPageNumber on the one  *)
(* page; people.active is the set of sub-collections that were started and *)
(* have not settled, people.started the number started so far.             *)
(***************************************************************************)
\* filters.location ? Math.max(filters.limit * 3, 30) : Math.max(filters.limit + 10, 20)
WithLocationFactor == 3
WithLocationFloor == 30
NoLocationExtra == 10
NoLocationFloor == 20
fetchLimit(limit, hasLocation) ==
  IF hasLocation THEN MaxOf({limit * WithLocationFactor, WithLocationFloor})
  ELSE MaxOf({limit + NoLocationExtra, NoLocationFloor})

\* one sub-collection per degree when there are several, else one collection
SubCollections(network) == IF Len(network) > 1 THEN Len(network) ELSE 1

\* the next sub-collection is started without waiting for the one before
NotAwaited(active) == TRUE
\* const partial = await collectForNetworkFilters([degree])
Awaited(active) == active = {}

\* perNetworkResults.get(degree) ?? []
PartialOf(perNetworkResults, degree) ==
  IF MapHas(perNetworkResults, degree)
  THEN perNetworkResults[CHOOSE i \in 1..Len(perNetworkResults) : perNetworkResults[i].key = degree].value
  ELSE <<>>

\* Math.max(...filters.network.map(degree => partial(degree).length), 0)
MaxPerNetworkLength(network, perNetworkResults) ==
  MaxOf({0} \cup {Len(PartialOf(perNetworkResults, network[j])) : j \in 1..Len(network)})

\* the items the two nested loops visit: position i of each degree's partial
\* list, the degrees in filter order, for i = 0, 1, ...
VisitedItem(network, perNetworkResults, n) ==
  [list |-> PartialOf(perNetworkResults, network[((n - 1) % Len(network)) + 1]),
   i |-> ((n - 1) \div Len(network)) + 1]

InterleaveEntries(network, perNetworkResults) ==
  [k \in 1..Cardinality({n \in 1..(MaxPerNetworkLength(network, perNetworkResults) * Len(network)) :
                           VisitedItem(network, perNetworkResults, n).i
                             <= Len(VisitedItem(network, perNetworkResults, n).list)}) |->
     LET n == CHOOSE m \in 1..(MaxPerNetworkLength(network, perNetworkResults) * Len(network)) :
                /\ VisitedItem(network, perNetworkResults, m).i
                     <= Len(VisitedItem(network, perNetworkResults, m).list)
                /\ Cardinality({q \in 1..(m - 1) :
                                  VisitedItem(network, perNetworkResults, q).i
                                    <= Len(VisitedItem(network, perNetworkResults, q).list)}) = k - 1
         item == VisitedItem(network, perNetworkResults, n)
     IN [key |-> item.list[item.i].url, value |-> item.list[item.i]]]

\* the partial lists one after the other
RECURSIVE PartialsInTurn(_, _)
PartialsInTurn(network, perNetworkResults) ==
  IF network = <<>> THEN <<>>
  ELSE PartialOf(perNetworkResults, Head(network))
         \o PartialsInTurn(Tail(network), perNetworkResults)
UrlEntries(records) == [i \in 1..Len(records) |-> [key |-> records[i].url, value |-> records[i]]]
Concatenated(network, perNetworkResults) ==
  MapValues(InsertAll(<<>>, UrlEntries(PartialsInTurn(network, perNetworkResults))))
\* if (item && !interleaved.has(item.profileUrl)) interleaved.set(...);
\* Array.from(interleaved.values())
Interleaved(network, perNetworkResults) ==
  MapValues(InsertAll(<<>>, InterleaveEntries(network, perNetworkResults)))

\* collectForNetworkFilters(...): collectPeopleResultsByPageNumber is entered
\* with a new Map
collectForNetworkFilters ==
  /\ people.pc = "loop"
  /\ people.started < SubCollections(people.network)
  /\ Awaited(people.active)
  /\ people' = [people EXCEPT !.started = @ + 1, !.active = @ \cup {people.started + 1}]
  /\ call' = [fn |-> People, limit |-> fetchLimit(people.limit, people.hasLocation),
              maxPages |-> DefaultMaxPages]
  /\ pc' = "goto" /\ seen' = <<>> /\ pageNumber' = 1 /\ emptyPageStreak' = 0
  /\ result' = <<>> /\ fetches' = 0 /\ firstSeen' = <<>> /\ shadowed' = FALSE /\ lastPages' = <<>>
  /\ UNCHANGED <<page, round, stableRounds, previousCount, OtherThanSearch>>

\* the awaited collection settles: perNetworkResults.set(degree, partial), or
\* results = its value when there is one collection; its exception leaves
\* searchPeople
Settled(search, outcome, partial) ==
  IF outcome = "threw" THEN [search EXCEPT !.pc = "threw", !.active = {}]
  ELSE IF Len(search.network) > 1
  THEN [search EXCEPT !.active = {},
                      !.perNetworkResults =
                         SetAlways(@, [key |-> search.network[search.started], value |-> partial])]
  ELSE [search EXCEPT !.active = {}, !.results = partial]

searchPeopleResume ==
  /\ people.pc = "loop" /\ people.active # {}
  /\ pc \in {"done", "threw"}
  /\ people' = Settled(people, pc, result)
  /\ pc' = "idle"
  /\ UNCHANGED <<call, page, seen, pageNumber, round, emptyPageStreak, stableRounds,
                 previousCount, result, fetches, firstSeen, shadowed, lastPages,
                 OtherThanSearch>>

\* the merge of the partial lists
searchPeopleInterleave ==
  /\ people.pc = "loop" /\ people.active = {}
  /\ people.started = SubCollections(people.network)
  /\ people' = [people EXCEPT
       !.pc = "merged",
       !.results = IF Len(people.network) > 1
                   THEN Interleaved(people.network, people.perNetworkResults)
                   ELSE @]
  /\ UNCHANGED <<colVars, OtherThanSearch>>

\* the degree filters of the calls: none, one degree, two degrees, one degree twice
SearchNetworks == {<<>>, <<"2">>, <<"1", "2">>, <<"2", "2">>}

SearchInit ==
  /\ people \in {[PeopleIdle EXCEPT !.pc = "loop", !.network = n, !.limit = l, !.hasLocation = h,
                               !.location = IF h THEN <<"n","y","c">> ELSE <<>>] :
                   n \in SearchNetworks, l \in 1..MaxLimit, h \in BOOLEAN}
  /\ call = [fn |-> "none", limit |-> 0, maxPages |-> 0]
  /\ page = [kind |-> "feed", batch |-> <<>>]
  /\ pc = "idle" /\ seen = <<>> /\ pageNumber = 1 /\ round = 0
  /\ emptyPageStreak = 0 /\ stableRounds = 0 /\ previousCount = 0
  /\ result = <<>> /\ fetches = 0 /\ firstSeen = <<>> /\ shadowed = FALSE /\ lastPages = <<>>
  /\ nav = NavIdle /\ build = BuildIdle /\ intro = IntroIdle /\ auth = AuthIdle
  /\ profiles = ProfilesIdle /\ cardText = CardTextIdle /\ watch = WatchIdle /\ config = ConfigIdle

SearchNext ==
  \/ collectForNetworkFilters
  \/ collectPeopleGoto
  \/ collectPeopleScrape
  \/ searchPeopleResume
  \/ searchPeopleInterleave

SearchSpec == SearchInit /\ [][SearchNext]_vars

\* C16: at most one fetch is under way on the page at any moment: a fetch
\* belongs to a sub-collection that was started and has not settled, there
\* is never more than one such sub-collection, and it is the one started
\* last (the sub-collections of a searchPeople call with several degrees run
\* one after another); each sub-collection starts with an empty dedup Map,
\* and the Map holds exactly the keys offered during that sub-collection.
C16_OneFetchOneMapAtATime ==
  /\ Cardinality(people.active) <= 1
  /\ people.active \subseteq {people.started}
  /\ pc \in {"goto", "scrape"} => people.active # {}
  /\ (pc = "goto" /\ fetches = 0) => seen = <<>>
  /\ Len(seen) = Len(firstSeen)
  /\ \A i \in 1..Len(seen) : seen[i].key = firstSeen[i].key

\* the second sub-collection scrapes with two records in its own Map while
\* the first one's list of three is stored
C16_SecondSubCollectionUnderWay ==
  /\ people.network = <<"1", "2">> /\ people.started = 2 /\ people.active = {2}
  /\ pc = "scrape" /\ Len(seen) = 2
  /\ Len(PartialOf(people.perNetworkResults, "1")) = 3

\* C17: in each collection loop no further round is started after a round at
\* whose end the dedup Map holds at least limit records: every step is taken
\* with the Map below the limit, and a round that brings the Map to the limit
\* ends the loop at once, whatever the streaks are, without advancing the
\* empty-page streak or the stability streak.
C17_NoRoundAfterLimitReached ==
  [][/\ Len(seen) < call.limit
     /\ Len(seen') >= call.limit =>
          /\ pc' = "done" /\ fetches' = fetches + (IF call.fn = People THEN 0 ELSE 1)
          /\ stableRounds' = stableRounds
          /\ emptyPageStreak' = 0]_vars

\* listPosts returned at the limit in its fourth round, after three rounds
\* that added nothing
C17_LimitReachedAfterStableRounds ==
  /\ call.fn = "listPosts" /\ pc = "done" /\ Len(seen) = call.limit
  /\ stableRounds = 3 /\ fetches = 4

\* C18: collectPeopleResultsByPageNumber stops as soon as two consecutive
\* pages have each produced no normalizable record; a page that produces a
\* record resets the empty-page streak to zero, so that one empty page after
\* a non-empty one does not stop the collection.
C18_TwoEmptyPagesStop ==
  call.fn = People =>
    /\ lastPages = <<TRUE, TRUE>> => (pc = "done" /\ emptyPageStreak = 2)
    /\ (lastPages # <<>> /\ ~lastPages[Len(lastPages)]) => emptyPageStreak = 0
    /\ (lastPages \in {<<TRUE>>, <<FALSE, TRUE>>} /\ pageNumber <= call.maxPages) =>
         (pc # "done" /\ emptyPageStreak = 1)

\* three pages visited, the second one empty, and the collection goes on
C18_EmptyPageBetweenTwoOthers ==
  /\ call.fn = People /\ page.kind = "feed" /\ pc = "goto"
  /\ fetches = 3 /\ Len(seen) = 2 /\ lastPages = <<TRUE, FALSE>>

\* the thresholds of the scroll collectors
ScrollThreshold ==
  CASE call.fn = "listPosts" -> 4
    [] call.fn = "listConnections" -> 5
    [] call.fn = "searchJobs" -> 3
    [] OTHER -> 0

\* C19: in the scroll collectors, with the limit not reached, a round that
\* adds no new record to the dedup Map adds one to the stability streak and
\* a round that adds one resets it to 0; the loop stops at the end of the
\* first round in which the streak reaches the threshold of the call site
\* (4 in listPosts, 5 in listConnections, 3 in searchJobs).
C19_StabilityStreakStops ==
  [][(call.fn \in LoopFns \ {People} /\ pc = "evaluate") =>
       /\ stableRounds < ScrollThreshold
       /\ Len(seen') < call.limit =>
            /\ Len(seen') > Len(seen) => stableRounds' = 0
            /\ Len(seen') = Len(seen) => stableRounds' = stableRounds + 1
            /\ (pc' = "done") <=> (stableRounds' = ScrollThreshold)]_vars

\* listConnections stopped by the streak in its seventh round: the second
\* round had added a record
C19_StoppedAfterReset ==
  /\ call.fn = "listConnections" /\ pc = "done" /\ stableRounds = 5
  /\ Len(seen) = 1 /\ call.limit > 1 /\ fetches = 7

\* C20: the page collector also applies the stability rule: when N
\* consecutive pages (N at most 5) each produce records and none of them
\* increases the size of the dedup Map, the loop stops without visiting the
\* remaining pages.  On a page that yields the same records every time only
\* the first page increases the Map, so at most 1 + 5 pages are visited.
C20_PageCollectorStabilityRule ==
  (call.fn = People /\ StableRecords # <<>> /\ Len(StableRecords) < call.limit) =>
    fetches <= 1 + 5

(***************************************************************************)
(* The rationale lists and the range of the scores.                        *)
(***************************************************************************)
\* the kinds of the lines of a rationale list, in order
KindOf(entry) ==
  CASE entry.line \in {"Mutual appears as a first-degree connection.",
                       "Mutual appears as a second-degree connection.",
                       "Connection degree is not explicit."} -> "degree"
    [] entry.line = "Shared headline context tokens: ." -> "headline"
    [] entry.line = "Shared location context tokens: ." -> "location"
    [] entry.line = "Limited headline context available." -> "penalty"
    [] OTHER -> "other"
Kinds(rationale) == [i \in 1..Len(rationale) |-> KindOf(rationale[i])]

\* the terms applied to a mutual, in the fixed order
TermsApplied(mutual) ==
  <<"degree">>
  \o (IF SharedHeadline(mutual) > 0 THEN <<"headline">> ELSE <<>>)
  \o (IF SharedLocation(mutual) > 0 THEN <<"location">> ELSE <<>>)
  \o (IF Len(mutual.headline) = 0 THEN <<"penalty">> ELSE <<>>)

\* C21: for every mutual the rationale list of its path holds exactly one
\* line per scoring term that was applied, in the order degree, shared
\* headline, shared location, empty-headline penalty: the degree line always
\* and first, the headline line iff the shared headline token count is > 0,
\* the location line iff the shared location token count is > 0, the
\* penalty line iff the mutual's headline is empty; the two count lines
\* quote the counts.
C21_RationaleListsAppliedTerms ==
  intro.pc = "returned" =>
    \A i \in 1..Len(intro.paths) :
      /\ Kinds(intro.paths[i].rationale) = TermsApplied(intro.paths[i].via)
      /\ \A k \in 1..Len(intro.paths[i].rationale) :
           intro.paths[i].rationale[k].count =
             (CASE KindOf(intro.paths[i].rationale[k]) = "headline" ->
                     SharedHeadline(intro.paths[i].via)
                [] KindOf(intro.paths[i].rationale[k]) = "location" ->
                     SharedLocation(intro.paths[i].via)
                [] OTHER -> 0)

\* paths with the lists degree-headline-location, degree-location-penalty
\* and, for a mutual whose headline is one space, degree alone
C21_ThreeShapesOfRationale ==
  /\ intro.pc = "returned"
  /\ \E i \in 1..Len(intro.paths) :
       Kinds(intro.paths[i].rationale) = <<"degree", "headline", "location">>
  /\ \E i \in 1..Len(intro.paths) :
       Kinds(intro.paths[i].rationale) = <<"degree", "location", "penalty">>
  /\ \E i \in 1..Len(intro.paths) :
       /\ Kinds(intro.paths[i].rationale) = <<"degree">>
       /\ intro.paths[i].via.headline = <<" ">>

\* C29: every score lies between 35 and 105 inclusive, the empty-headline
\* penalty and the shared-headline bonus are never both applied to one
\* mutual, and every rationale list has between 1 and 3 entries.
C29_ScoreAndRationaleRanges ==
  intro.pc = "returned" =>
    \A i \in 1..Len(intro.paths) :
      /\ intro.paths[i].score >= 35 /\ intro.paths[i].score <= 105
      /\ ~(\E k, l \in 1..Len(intro.paths[i].rationale) :
             /\ KindOf(intro.paths[i].rationale[k]) = "headline"
             /\ KindOf(intro.paths[i].rationale[l]) = "penalty")
      /\ ~(intro.paths[i].via.headline = <<>> /\ SharedHeadline(intro.paths[i].via) > 0)
      /\ Len(intro.paths[i].rationale) >= 1 /\ Len(intro.paths[i].rationale) <= 3

\* the top of the range, 105 with three lines, and in the same call a
\* mutual without headline that shares a location token: three lines, the
\* penalty among them and no headline line
C29_TopScoreAndPenaltyWithLocation ==
  /\ intro.pc = "returned" /\ Len(intro.paths) >= 2
  /\ intro.paths[1].score = 105 /\ Len(intro.paths[1].rationale) = 3
  /\ \E i \in 1..Len(intro.paths) :
       /\ intro.paths[i].via.headline = <<>>
       /\ intro.paths[i].score = 40
       /\ Kinds(intro.paths[i].rationale) = <<"degree", "location", "penalty">>

(***************************************************************************)
(* inferDegree and parseSearchCardText.  The text is a sequence of         *)
(* characters in which "bullet" stands for U+2022 and "middot" for U+00B7. *)
(***************************************************************************)
ThirdDegree == <<"3","r","d">>
UnknownDegree == <<"u","n","k","n","o","w","n">>
DegreeValues == {FirstDegree, SecondDegree, ThirdDegree, UnknownDegree}

\* s[i], and "" where the text has no character
CharAt(s, i) == IF i >= 1 /\ i <= Len(s) THEN s[i] ELSE ""
\* \w
IsWordChar(c) == IsAlnum(c) \/ c = "_"
\* \b before index i
WordBoundaryAt(s, i) == IsWordChar(CharAt(s, i - 1)) # IsWordChar(CharAt(s, i))

\* [123](?:st|nd|rd) under the i flag, at index i
OrdinalAt(s, i) ==
  /\ CharAt(s, i) \in {"1", "2", "3"}
  /\ <<ToLowerChar(CharAt(s, i + 1)), ToLowerChar(CharAt(s, i + 2))>> \in {<<"s","t">>, <<"n","d">>, <<"r","d">>}
\* (?=\s|$|[A-Z]) under the i flag, at index i: the i flag makes [A-Z] match
\* the lowercase letters too
ShortOrdinalLookahead(s, i) == i > Len(s) \/ IsSpace(s[i]) \/ IsAlpha(s[i])
\* the lookahead with a case-sensitive [A-Z]
UppercaseLookahead(s, i) == i > Len(s) \/ IsSpace(s[i]) \/ IsUpper(s[i])
\* ([123](?:st|nd|rd)\+?)(?=\s|$|[A-Z]) at index i
ShortOrdinalAt(s, i) ==
  /\ OrdinalAt(s, i)
  /\ \/ CharAt(s, i + 3) = "+" /\ ShortOrdinalLookahead(s, i + 4)
     \/ ShortOrdinalLookahead(s, i + 3)
\* \s+degree\b at index i
DegreeWordAt(s, i) ==
  /\ IsSpace(CharAt(s, i))
  /\ \E j \in (i + 1)..Len(s) :
       /\ \A k \in i..(j - 1) : IsSpace(s[k])
       /\ j + 5 <= Len(s)
       /\ ToLowerCase(SubSeq(s, j, j + 5)) = <<"d","e","g","r","e","e">>
       /\ WordBoundaryAt(s, j + 6)
\* \b([123](?:st|nd|rd))\s+degree\b at index i
OrdinalDegreeAt(s, i) == WordBoundaryAt(s, i) /\ OrdinalAt(s, i) /\ DegreeWordAt(s, i + 3)
\* \b([123])\s+degree\b at index i
DigitDegreeAt(s, i) ==
  WordBoundaryAt(s, i) /\ CharAt(s, i) \in {"1", "2", "3"} /\ DegreeWordAt(s, i + 1)

ShortOrdinalMatches(raw) == {i \in 1..Len(raw) : ShortOrdinalAt(raw, i)}
OrdinalMatches(raw) == {i \in 1..Len(raw) : OrdinalDegreeAt(raw, i)}
DigitMatches(raw) == {i \in 1..Len(raw) : DigitDegreeAt(raw, i)}

\* the degree of the digit that starts a match
DegreeOfDigit(c) ==
  IF c = "1" THEN FirstDegree ELSE IF c = "2" THEN SecondDegree ELSE ThirdDegree

inferDegree(raw) ==
  IF ShortOrdinalMatches(raw) # {} THEN DegreeOfDigit(raw[MinOf(ShortOrdinalMatches(raw))])
  ELSE IF OrdinalMatches(raw) # {}
  THEN ToLowerCase(SubSeq(raw, MinOf(OrdinalMatches(raw)), MinOf(OrdinalMatches(raw)) + 2))
  ELSE IF DigitMatches(raw) # {} THEN DegreeOfDigit(raw[MinOf(DigitMatches(raw))])
  ELSE UnknownDegree

\* line.replace(/\s+/g, " ")
CollapseSpace(line) ==
  AtIndexes([i \in 1..Len(line) |-> IF IsSpace(line[i]) THEN " " ELSE line[i]],
            {i \in 1..Len(line) : ~IsSpace(line[i]) \/ i = 1 \/ ~IsSpace(line[i - 1])})
CleanLine(line) == Trim(CollapseSpace(line))
CleanLines(lines) == [i \in 1..Len(lines) |-> CleanLine(lines[i])]
\* raw.split("\n").map(...).filter(Boolean)
CardLines(raw) == SelectSeq(CleanLines(SplitOn(raw, {"\n"})), NonEmpty)

noisePrefixes ==
  {<<"p","a","s","t",":">>, <<"c","u","r","r","e","n","t",":">>, <<"m","u","t","u","a","l">>, <<"s","h","a","r","e","d">>, <<"s","e","e"," ","a","l","l">>,
   <<"s","h","o","w"," ","a","l","l">>, <<"v","i","e","w">>, <<"m","e","s","s","a","g","e">>, <<"f","o","l","l","o","w">>, <<"c","o","n","n","e","c","t">>, <<"p","e","n","d","i","n","g">>}
HasNoisePrefix(lower) == \E p \in noisePrefixes : StartsWith(lower, p)
isNoise(value) == ToLowerCase(value) = <<"bullet">> \/ HasNoisePrefix(ToLowerCase(value))

\* (?:1st|2nd|3rd\+?) under the i flag: the length of the match at index i,
\* 0 when there is none, the longer one first
MarkerLengthAt(s, i) ==
  IF ~(i >= 1 /\ i + 2 <= Len(s)) THEN 0
  ELSE IF ToLowerCase(SubSeq(s, i, i + 2)) \in {<<"1","s","t">>, <<"2","n","d">>} THEN 3
  ELSE IF ToLowerCase(SubSeq(s, i, i + 2)) = <<"3","r","d">>
  THEN (IF CharAt(s, i + 3) = "+" THEN 4 ELSE 3)
  ELSE 0
\* (?:1st|2nd|3rd\+?)$ : the index where a marker that ends the text starts,
\* 0 when the text ends with none
TrailingMarker(s) ==
  IF MarkerLengthAt(s, Len(s) - 3) = 4 THEN Len(s) - 3
  ELSE IF MarkerLengthAt(s, Len(s) - 2) = 3 THEN Len(s) - 2
  ELSE 0
\* the index after the white space that ends Take(s, n)
BeforeSpace(s, n) ==
  IF \E i \in 1..n : ~IsSpace(s[i]) THEN MaxOf({i \in 1..n : ~IsSpace(s[i])}) ELSE 0
\* the same, after one optional bullet or middle dot
BeforeGlyph(s, n) == IF CharAt(s, n) \in {"bullet", "middot"} THEN n - 1 ELSE n
\* s.replace(/\s*[•·]?\s*(?:1st|2nd|3rd\+?)$/i, "")
StripTrailingMarker(s) ==
  IF TrailingMarker(s) = 0 THEN s
  ELSE Take(s, BeforeSpace(s, BeforeGlyph(s, BeforeSpace(s, TrailingMarker(s) - 1))))
\* s.replace(/^•\s*/, "")
StripLeadingBullet(s) ==
  IF CharAt(s, 1) = "bullet" THEN Drop(s, FirstNotIn(Drop(s, 1), {" ", "\t", "\n"})) ELSE s
CardName(line) == Trim(StripTrailingMarker(StripLeadingBullet(line)))

\* /(?:^| )(?:1st|2nd|3rd\+?)(?:$| )/i.test(line)
MarkerWordAt(line, i) ==
  /\ i = 1 \/ line[i - 1] = " "
  /\ \/ MarkerLengthAt(line, i) >= 3 /\ (i + 3 > Len(line) \/ line[i + 3] = " ")
     \/ MarkerLengthAt(line, i) = 4 /\ (i + 4 > Len(line) \/ line[i + 4] = " ")
HasMarkerWord(line) == \E i \in 1..Len(line) : MarkerWordAt(line, i)
\* the line is a marker and nothing else
OnlyMarker(line) == MarkerLengthAt(line, 1) = Len(line) /\ Len(line) > 0
IsCandidateDetail(line) == ~StartsWith(line, <<"bullet">>) /\ ~HasMarkerWord(line) /\ ~isNoise(line)
candidateDetails(lines) == SelectSeq(Tail(lines), IsCandidateDetail)
\* details[n] ?? ""
DetailOr(details, n) == IF Len(details) >= n THEN details[n] ELSE <<>>
CardOf(lines) ==
  [name |-> CardName(lines[1]),
   headline |-> DetailOr(candidateDetails(lines), 1),
   location |-> DetailOr(candidateDetails(lines), 2)]
parseSearchCardText(raw) ==
  IF CardLines(raw) = <<>> THEN [name |-> <<>>, headline |-> <<>>, location |-> <<>>]
  ELSE CardOf(CardLines(raw))

\* the texts a card is read from: a degree text around a marker, or up to
\* MaxCardLines lines of a card
MaxCardLines == 3
DegreePrefixes ==
  {<<>>, <<"J","a","n","e"," ","D","o","e"," ">>, <<"J","a","n","e","bullet">>, <<"x">>, <<"_">>,
   <<"\n">>}
DegreeMarkers ==
  {<<"1","s","t">>, <<"2","N","D">>, <<"3","r","d">>, <<"3","r","d","+">>, <<"1","n","d">>,
   <<"4","t","h">>, <<"2","n","d"," ","d","e","g","r","e","e">>,
   <<"3","R","D"," "," ","D","e","g","r","e","e">>, <<"1"," ","d","e","g","r","e","e">>,
   <<"2","\t","D","E","G","R","E","E">>, <<"3"," ","d","e","g","r","e","e","s">>,
   <<"1","s","t","d"," ","d","e","g","r","e","e">>, <<"f","i","r","s","t">>}
DegreeSuffixes ==
  {<<>>, <<" ">>, <<"B","o","b">>, <<"d","i","b","s">>, <<"+">>, <<".">>,
   <<" ","2"," ","d","e","g","r","e","e">>, <<"1","s","t">>}
SampleCardLines ==
  {<<"J","a","n","e"," ","D","o","e">>,
   <<"bullet"," ","J","a","n","e"," ","D","o","e"," ","middot"," ","2","n","d">>,
   <<"3","r","d","+">>, <<"bullet"," ","P","r","e","m","i","u","m">>, <<" ","\t">>,
   <<"E","n","g","i","n","e","e","r"," "," ","a","t","\t","A","c","m","e">>,
   <<"1","s","t"," ","O","f","f","i","c","e","r"," ","a","t"," ","D","e","l","t","a">>,
   <<"S","a","n"," ","F","r","a","n","c","i","s","c","o">>,
   <<"M","u","t","u","a","l"," ","c","o","n","n","e","c","t","i","o","n","s">>, <<"bullet">>}
RECURSIVE LinesUpTo(_)
LinesUpTo(n) ==
  IF n = 0 THEN {<<>>}
  ELSE LinesUpTo(n - 1) \cup {ls \o <<l>> : ls \in LinesUpTo(n - 1), l \in SampleCardLines}
CardTexts ==
  {p \o m \o x : p \in DegreePrefixes, m \in DegreeMarkers, x \in DegreeSuffixes}
    \cup {JoinWith(ls, <<"\n">>) : ls \in LinesUpTo(MaxCardLines)}

\* inferDegree(item.connectionDegreeText)
InferDegree ==
  /\ cardText.pc = "given"
  /\ ~cardText.inferred
  /\ cardText' = [cardText EXCEPT !.inferred = TRUE, !.degree = inferDegree(cardText.raw)]
  /\ UNCHANGED OtherThanCardText

\* parseSearchCardText(item.cardText)
ParseSearchCardText ==
  /\ cardText.pc = "given"
  /\ ~cardText.parsed
  /\ cardText' = [cardText EXCEPT !.parsed = TRUE, !.card = parseSearchCardText(cardText.raw)]
  /\ UNCHANGED OtherThanCardText

CardInit ==
  /\ cardText \in {[CardTextIdle EXCEPT !.pc = "given", !.raw = t] : t \in CardTexts}
  /\ nav = NavIdle /\ build = BuildIdle /\ intro = IntroIdle /\ auth = AuthIdle
  /\ profiles = ProfilesIdle /\ people = PeopleIdle /\ watch = WatchIdle /\ config = ConfigIdle
  /\ ColIdle
CardNext == InferDegree \/ ParseSearchCardText
CardSpec == CardInit /\ [][CardNext]_vars

(***************************************************************************)
(* Claims about inferDegree and parseSearchCardText                        *)
(***************************************************************************)
\* a short ordinal marker 1st, 2nd, 3rd or 3rd+ at index i that is followed
\* by white space, the end of the text or an uppercase letter
MarkerBeforeUppercaseAt(s, i) ==
  \/ MarkerLengthAt(s, i) >= 3 /\ UppercaseLookahead(s, i + 3)
  \/ MarkerLengthAt(s, i) = 4 /\ UppercaseLookahead(s, i + 4)
MarkerBeforeUppercase(raw) == {i \in 1..Len(raw) : MarkerBeforeUppercaseAt(raw, i)}
\* the degree the three rules give when rule 1 asks for an uppercase letter
DegreeByRules(raw) ==
  IF MarkerBeforeUppercase(raw) # {} THEN DegreeOfDigit(raw[MinOf(MarkerBeforeUppercase(raw))])
  ELSE IF OrdinalMatches(raw) # {} THEN DegreeOfDigit(raw[MinOf(OrdinalMatches(raw))])
  ELSE IF DigitMatches(raw) # {} THEN DegreeOfDigit(raw[MinOf(DigitMatches(raw))])
  ELSE UnknownDegree

\* C22: inferDegree is total and decided by the first matching rule of
\* (1) a short ordinal marker followed by white space, the end of the text or
\* an uppercase letter, (2) an "<ordinal> degree" phrase, (3) a "<digit>
\* degree" phrase; the result is unknown exactly when no rule matches, and
\* is always one of the four degree values.
C22_DegreeByFirstMatchingRule ==
  cardText.inferred =>
    /\ cardText.degree \in DegreeValues
    /\ cardText.degree = DegreeByRules(cardText.raw)
    /\ cardText.degree = UnknownDegree <=>
         /\ MarkerBeforeUppercase(cardText.raw) = {}
         /\ OrdinalMatches(cardText.raw) = {}
         /\ DigitMatches(cardText.raw) = {}

\* a line that is none of: bullet-prefixed, only a degree marker, beginning
\* with a UI-noise prefix
KeptDetail(line) ==
  ~StartsWith(line, <<"bullet">>) /\ ~OnlyMarker(line) /\ ~HasNoisePrefix(ToLowerCase(line))
KeptDetails(lines) == IF lines = <<>> THEN <<>> ELSE SelectSeq(Tail(lines), KeptDetail)

\* C23: parseSearchCardText never fails; its headline is the first and its
\* location the second of the lines after the first non-empty line that are
\* left when exactly the bullet-prefixed lines, the lines that are only a
\* degree marker and the lines beginning with a UI-noise prefix are dropped;
\* a missing line gives the empty string.
C23_HeadlineAndLocationOfKeptLines ==
  cardText.parsed =>
    /\ cardText.card.headline = DetailOr(KeptDetails(CardLines(cardText.raw)), 1)
    /\ cardText.card.location = DetailOr(KeptDetails(CardLines(cardText.raw)), 2)

(***************************************************************************)
(* `posts list --watch`.  One step is one run of the event loop: a         *)
(* callback or the continuation of an await, with the microtasks it        *)
(* queues.  browser.close() and listPosts need I/O and end in a later step. *)
(***************************************************************************)
maxConsecutiveErrors == 3
\* the interval polls and the timer ticks of one run
MaxPolls == 5
MaxWatchTicks == 6
\* how a poll ends: listPosts and the output succeed, listPosts throws, or
\* listPosts succeeds and outputResult throws
PollOutcomes == {"ok", "listFailed", "outputFailed"}
Signals == {"SIGINT", "SIGTERM"}

\* a poll guard that looks at the abort signal only
PollGuardAbortOnly(polling, aborted) == aborted
\* poll: if (polling || abortController.signal.aborted) return
PollGuard(polling, aborted) == polling \/ aborted

\* an error count that no success resets
ErrorsNeverReset(outcome, n) == IF outcome = "ok" THEN n ELSE n + 1
\* consecutiveErrors after a poll: listPosts' success sets it to 0, the
\* timer's catch adds 1
ErrorsAfter(outcome, n) ==
  IF outcome = "ok" THEN 0 ELSE IF outcome = "outputFailed" THEN 1 ELSE n + 1

\* untrackBrowser: activeBrowsers.delete(browser)
Untracked(tracked) == FALSE

\* the command's finally block calls browser.close()
Finally(w) ==
  [w EXCEPT !.pc = "closing", !.closeCalls = @ + 1, !.closers = @ \cup {"finally"}]
\* onAbort: clearInterval(timer), resolve(); the awaiting command goes on
\* to its finally block
OnAbort(w) == Finally([w EXCEPT !.timer = FALSE])
\* abortController.abort(): the abort event is dispatched once
Abort(w) ==
  IF w.aborted THEN w
  ELSE IF w.pc = "waiting" THEN OnAbort([w EXCEPT !.aborted = TRUE])
  ELSE [w EXCEPT !.aborted = TRUE]
\* poll().catch(...), after consecutiveErrors += 1
PollCaught(w) ==
  IF w.consecutiveErrors >= maxConsecutiveErrors THEN Abort([w EXCEPT !.timer = FALSE]) ELSE w
PollEnded(w, outcome) == IF outcome = "ok" THEN w ELSE PollCaught(w)

\* process.prependOnceListener("SIGINT", () => abortController.abort())
Listened(w, signal) ==
  IF signal = "SIGINT" /\ w.listener THEN Abort([w EXCEPT !.listener = FALSE]) ELSE w
\* handler(signal): cleanupAllBrowsers() clears the tracked set and closes
\* its browsers one by one, then process.exit; with nothing to close the
\* exit follows in the same run of the event loop
Handler(w) ==
  IF w.tracked
  THEN [w EXCEPT !.tracked = FALSE, !.closeCalls = @ + 1, !.closers = @ \cup {"cleanup"},
                 !.cleanup = "closing"]
  ELSE [w EXCEPT !.exited = TRUE]

\* launchBrowser: launcher.launch(), trackBrowser(instance)
WatchLaunch ==
  /\ watch.pc = "start"
  /\ watch' = [watch EXCEPT !.pc = "launching", !.tracked = TRUE]
  /\ UNCHANGED OtherThanWatch

\* launchAuthenticatedContext returns; untrackBrowser(browser)
ContextReady ==
  /\ watch.pc = "launching" /\ ~watch.exited
  /\ watch' = [watch EXCEPT !.pc = "authenticating", !.tracked = Untracked(@)]
  /\ UNCHANGED OtherThanWatch

\* newContext or newPage throws: the browser is closed and the error rethrown
ContextFails ==
  /\ watch.pc = "launching" /\ ~watch.exited
  /\ watch' = [watch EXCEPT !.pc = "closing", !.error = TRUE, !.closeCalls = @ + 1,
                            !.closers = @ \cup {"catch"}]
  /\ UNCHANGED OtherThanWatch

\* assertAuthenticated and resolveMyProfileUrl, then the first poll starts
Authenticated ==
  /\ watch.pc = "authenticating" /\ ~watch.exited
  /\ \E ok \in BOOLEAN :
       watch' = IF ok THEN [watch EXCEPT !.pc = "first", !.polling = TRUE, !.inFlight = 1]
                ELSE Finally([watch EXCEPT !.error = TRUE])
  /\ UNCHANGED OtherThanWatch

\* await poll(): the first poll ends; then setInterval and the wait for the
\* abort
FirstPollDone ==
  /\ watch.pc = "first" /\ ~watch.exited
  /\ \E outcome \in PollOutcomes :
       watch' = IF outcome = "ok"
                THEN [watch EXCEPT !.pc = "waiting", !.polling = FALSE, !.inFlight = 0,
                                   !.consecutiveErrors = 0, !.timer = TRUE, !.listener = TRUE]
                ELSE Finally([watch EXCEPT !.polling = FALSE, !.inFlight = 0, !.error = TRUE])
  /\ UNCHANGED OtherThanWatch

\* the interval fires: poll()
TimerTick ==
  /\ watch.timer /\ ~watch.exited
  /\ watch.ticks < MaxWatchTicks /\ Len(watch.outcomes) + watch.inFlight < MaxPolls
  /\ watch' = IF PollGuard(watch.polling, watch.aborted)
              THEN [watch EXCEPT !.ticks = @ + 1]
              ELSE [watch EXCEPT !.ticks = @ + 1, !.polling = TRUE, !.inFlight = @ + 1]
  /\ UNCHANGED OtherThanWatch

\* an interval poll ends
PollDone ==
  /\ watch.pc \in {"waiting", "closing", "returned"} /\ ~watch.exited
  /\ watch.inFlight > 0
  /\ \E outcome \in PollOutcomes :
       watch' = PollEnded([watch EXCEPT !.polling = FALSE, !.inFlight = @ - 1,
                                    !.consecutiveErrors = ErrorsAfter(outcome, @),
                                    !.outcomes = Append(@, outcome)], outcome)
  /\ UNCHANGED OtherThanWatch

\* SIGINT or SIGTERM is delivered: the listeners run in their order
Signal ==
  /\ watch.pc \in {"launching", "authenticating", "first", "waiting", "closing"}
  /\ ~watch.exited
  /\ \E signal \in Signals : watch' = Handler(Listened(watch, signal))
  /\ UNCHANGED OtherThanWatch

\* the browser has closed: every pending close() resolves, the
\* "disconnected" listener removes the browser from the tracked set, the
\* command returns or rethrows, the cleanup goes on to process.exit
CloseDone ==
  /\ watch.closeCalls > 0 /\ ~watch.closed /\ ~watch.exited
  /\ watch' = [watch EXCEPT !.closed = TRUE, !.tracked = FALSE,
                            !.pc = IF @ # "closing" THEN @
                                   ELSE IF watch.error THEN "threw" ELSE "returned",
                            !.exited = watch.cleanup = "closing"]
  /\ UNCHANGED OtherThanWatch

WatchInit ==
  /\ watch = [WatchIdle EXCEPT !.pc = "start"]
  /\ nav = NavIdle /\ build = BuildIdle /\ intro = IntroIdle /\ auth = AuthIdle
  /\ profiles = ProfilesIdle /\ people = PeopleIdle /\ cardText = CardTextIdle
  /\ config = ConfigIdle
  /\ ColIdle
WatchNext ==
  \/ WatchLaunch \/ ContextReady \/ ContextFails \/ Authenticated \/ FirstPollDone
  \/ TimerTick \/ PollDone \/ Signal \/ CloseDone
WatchSpec == WatchInit /\ [][WatchNext]_vars
\* a close() that was called completes
FairWatchSpec == WatchSpec /\ WF_vars(CloseDone)

(***************************************************************************)
(* Claims about watch mode and the signal handlers                         *)
(***************************************************************************)
\* C24: in `posts list --watch` the browser is closed at most once in every
\* interleaving of timer ticks, poll failures and signals, and never by the
\* signal handler's cleanup.
C24_ClosedOnceNeverByCleanup ==
  watch.closeCalls <= 1 /\ "cleanup" \notin watch.closers

\* C25: at most one listPosts call is in flight; a tick that arrives while a
\* poll is running starts no poll, the end of a poll starts none (no tick
\* was queued), and no poll starts after the abort.
C25_OnePollInFlight ==
  [][/\ watch'.inFlight <= 1
     /\ watch'.ticks # watch.ticks /\ watch.inFlight > 0 => watch'.inFlight = watch.inFlight
     /\ watch'.outcomes # watch.outcomes => watch'.inFlight = watch.inFlight - 1
     /\ watch.aborted => watch'.inFlight <= watch.inFlight]_vars
\* two ticks after the first poll, one poll started and none ended
C25_TickDuringRunningPoll ==
  watch.pc = "waiting" /\ watch.ticks = 2 /\ watch.inFlight = 1 /\ watch.outcomes = <<>>

\* the interval polls that failed since the last successful listPosts
LastListed(outcomes) ==
  IF \E i \in 1..Len(outcomes) : outcomes[i] # "listFailed"
  THEN MaxOf({i \in 1..Len(outcomes) : outcomes[i] # "listFailed"}) ELSE 0
FailedSince(outcomes, last) ==
  Len(outcomes) - last + (IF last > 0 /\ outcomes[last] = "outputFailed" THEN 1 ELSE 0)
FailRun(outcomes) == FailedSince(outcomes, LastListed(outcomes))

\* C26: the end of an interval poll stops the watch exactly when it is the
\* third failure since the last successful listPosts: the timer is cleared,
\* the abort signalled and the browser's close called in that step, and the
\* command returns with the browser closed (unless a signal ends the
\* process first); any other end of a poll changes none of these.
C26_ThreeFailuresStop ==
  /\ [][watch'.outcomes # watch.outcomes =>
          IF FailRun(watch'.outcomes) >= 3
          THEN /\ watch.pc = "waiting" /\ watch.timer /\ ~watch.aborted
               /\ ~watch'.timer /\ watch'.aborted /\ watch'.pc = "closing"
               /\ watch'.closeCalls = watch.closeCalls + 1
          ELSE /\ watch'.timer = watch.timer /\ watch'.aborted = watch.aborted
               /\ watch'.pc = watch.pc /\ watch'.closeCalls = watch.closeCalls]_vars
  /\ [](watch.pc = "returned" => watch.closed)
  /\ (FailRun(watch.outcomes) >= 3) ~> (watch.pc = "returned" \/ watch.exited)
\* stopped by the fourth and fifth failure after a poll whose listPosts
\* succeeded and whose output failed
C26_StoppedAfterReset ==
  /\ watch.outcomes = <<"listFailed", "listFailed", "outputFailed", "listFailed", "listFailed">>
  /\ watch.pc = "returned" /\ watch.closed /\ ~watch.timer /\ watch.aborted

\* C27: when a signal arrives after the browser was launched, the browser's
\* close() has completed before the process exits.
C27_ClosedBeforeExit == watch.exited => watch.closed

(***************************************************************************)
(* searchPeople from the settled sub-collections to its return: the merge, *)
(* the two filters and the slice.  SearchSpec follows the call through its *)
(* sub-collections; here the lists they returned are given.                *)
(***************************************************************************)
\* haystack.includes(needle)
Includes(haystack, needle) == \E i \in 1..(Len(haystack) + 1) : OccursAt(haystack, needle, i)
\* result.location.toLowerCase().includes(normalizedLocation)
LocationMatches(person, location) == Includes(ToLowerCase(person.location), ToLowerCase(location))
\* a degree filter that lets a record of unknown degree through
DegreeAllowedOrUnknown(person, network) ==
  \/ \E d \in {"1", "2", "3"} : StartsWith(person.connectionDegree, <<d>>) /\ d \in SeqRange(network)
  \/ \A d \in {"1", "2", "3"} : ~StartsWith(person.connectionDegree, <<d>>)
\* allowed.has(d) for the d that connectionDegree starts with, else false
DegreeAllowed(person, network) ==
  \E d \in {"1", "2", "3"} : StartsWith(person.connectionDegree, <<d>>) /\ d \in SeqRange(network)
LocationFiltered(results, location) ==
  IF location = <<>> THEN results
  ELSE AtIndexes(results, {i \in 1..Len(results) : LocationMatches(results[i], location)})
DegreeFiltered(results, network) ==
  IF network = <<>> THEN results
  ELSE AtIndexes(results, {i \in 1..Len(results) : DegreeAllowed(results[i], network)})
\* the merge when there are several degrees, else the one collection's list
Merged(search) ==
  IF Len(search.network) > 1 THEN Interleaved(search.network, search.perNetworkResults)
  ELSE search.results
\* searchPeople's return value
SearchResults(search) ==
  Slice(DegreeFiltered(LocationFiltered(Merged(search), search.location), search.network),
        search.limit)

searchPeopleReturn ==
  /\ people.pc = "loop" /\ people.active = {}
  /\ people.started = SubCollections(people.network)
  /\ people' = [people EXCEPT !.pc = "returned", !.results = SearchResults(people)]
  /\ UNCHANGED <<colVars, OtherThanSearch>>

\* the records of the sub-collections: five cards of four profiles, /in/a/
\* read once as 1st and once as 2nd
SamplePersons ==
  {[text |-> <<"A">>, url |-> toCanonicalProfileUrl(<<"/","i","n","/","a">>), connectionDegree |-> FirstDegree,
    location |-> <<"N","e","w"," ","Y","o","r","k">>],
   [text |-> <<"A">>, url |-> toCanonicalProfileUrl(<<"/","i","n","/","a">>), connectionDegree |-> SecondDegree,
    location |-> <<"A","u","s","t","i","n">>],
   [text |-> <<"B">>, url |-> toCanonicalProfileUrl(<<"/","i","n","/","b">>), connectionDegree |-> SecondDegree,
    location |-> <<"n","e","w"," ","y","o","r","k"," ","c","i","t","y">>],
   [text |-> <<"C">>, url |-> toCanonicalProfileUrl(<<"/","i","n","/","c">>), connectionDegree |-> UnknownDegree,
    location |-> <<"N","e","w"," ","Y","o","r","k">>],
   [text |-> <<"D">>, url |-> toCanonicalProfileUrl(<<"/","i","n","/","d">>), connectionDegree |-> ThirdDegree,
    location |-> <<>>]}
SampleLocation == <<"N","e","w"," ","y","o","r","k">>
\* the longest list a sub-collection returns
MaxPartial == 3
\* what collectPeopleResultsByPageNumber can return: records of pairwise
\* different profile URLs
RECURSIVE PartialsUpTo(_)
PartialsUpTo(n) ==
  IF n = 0 THEN {<<>>}
  ELSE PartialsUpTo(n - 1)
         \cup {Append(l, p) : l \in {k \in PartialsUpTo(n - 1) : Len(k) = n - 1},
                              p \in SamplePersons}
DistinctUrls(records) ==
  \A i, j \in 1..Len(records) : i # j => records[i].url # records[j].url
PartialLists == {l \in PartialsUpTo(MaxPartial) : DistinctUrls(l)}
ReturnNetworks == {<<>>, <<"2">>, <<"3">>, <<"1", "2">>, <<"2", "1">>}
\* perNetworkResults after the sub-collections for first and second
PerNetwork(network, first, second) ==
  <<[key |-> network[1], value |-> first], [key |-> network[2], value |-> second]>>
Settlements(network) ==
  IF Len(network) > 1
  THEN {[perNetworkResults |-> PerNetwork(network, first, second), results |-> <<>>] :
          first \in PartialLists, second \in PartialLists}
  ELSE {[perNetworkResults |-> <<>>, results |-> l] : l \in PartialLists}

ReturnInit ==
  /\ \E n \in ReturnNetworks, l \in 1..MaxLimit, loc \in {<<>>, SampleLocation} :
       \E settled \in Settlements(n) :
         people = [PeopleIdle EXCEPT !.pc = "loop", !.network = n, !.limit = l,
                                     !.hasLocation = loc # <<>>, !.location = loc,
                                     !.started = SubCollections(n),
                                     !.perNetworkResults = settled.perNetworkResults,
                                     !.results = settled.results]
  /\ nav = NavIdle /\ build = BuildIdle /\ intro = IntroIdle /\ auth = AuthIdle
  /\ profiles = ProfilesIdle /\ cardText = CardTextIdle /\ watch = WatchIdle /\ config = ConfigIdle
  /\ ColIdle
ReturnNext == searchPeopleReturn
ReturnSpec == ReturnInit /\ [][ReturnNext]_vars

\* the loops over i and the degrees: turn t looks at position TurnIndex of
\* TurnList
TurnList(network, perNetworkResults, t) ==
  PartialOf(perNetworkResults, network[((t - 1) % Len(network)) + 1])
TurnIndex(network, t) == ((t - 1) \div Len(network)) + 1
LongestPartial(perNetworkResults) ==
  MaxOf({0} \cup {Len(perNetworkResults[k].value) : k \in 1..Len(perNetworkResults)})
\* the turns that meet the profile url
VisitTurnsOf(network, perNetworkResults, url) ==
  {t \in 1..(Len(network) * LongestPartial(perNetworkResults)) :
     /\ TurnIndex(network, t) <= Len(TurnList(network, perNetworkResults, t))
     /\ TurnList(network, perNetworkResults, t)[TurnIndex(network, t)].url = url}
FirstTurn(search, record) ==
  MinOf(VisitTurnsOf(search.network, search.perNetworkResults, record.url))
\* the record met at turn t
RecordAtTurn(search, t) ==
  TurnList(search.network, search.perNetworkResults, t)[TurnIndex(search.network, t)]

\* C28: searchPeople returns at most filters.limit records of pairwise
\* different profileUrl; with a degree filter every record's degree is one
\* of the requested ones; with several degrees the records stand in the
\* order of a round-robin over the per-degree lists, the degrees in the
\* order requested, each record the one met first under its url.
C28_LimitDistinctDegreeAndRoundRobin ==
  people.pc = "returned" =>
    /\ Len(people.results) <= people.limit
    /\ DistinctUrls(people.results)
    /\ people.network # <<>> =>
         \A i \in 1..Len(people.results) :
           \E d \in SeqRange(people.network) : people.results[i].connectionDegree[1] = d
    /\ Len(people.network) > 1 =>
         /\ \A i \in 1..Len(people.results) :
              people.results[i] = RecordAtTurn(people, FirstTurn(people, people.results[i]))
         /\ \A i, j \in 1..Len(people.results) :
              i < j => FirstTurn(people, people.results[i]) < FirstTurn(people, people.results[j])
\* first and second degree requested: the second list's first record follows
\* the first list's first, a record of unknown degree was dropped, a profile
\* met in both lists is returned once and the limit cuts the merged list
C28_AlternatingAndCut ==
  /\ people.pc = "returned" /\ people.network = <<"1", "2">> /\ people.limit = 2
  /\ Len(people.results) = 2
  /\ FirstTurn(people, people.results[1]) = 1 /\ FirstTurn(people, people.results[2]) = 2
  /\ Len(PartialOf(people.perNetworkResults, "1")) = 3
  /\ PartialOf(people.perNetworkResults, "1")[2].connectionDegree = UnknownDegree
  /\ Len(PartialOf(people.perNetworkResults, "2")) >= 2
  /\ PartialOf(people.perNetworkResults, "2")[2].url = people.results[1].url

(***************************************************************************)
(* `config set`.  A JSON value is [type, text, tenths, bool]: a number is  *)
(* kept in tenths, so that 1.5 is 15.  A config is a function from its     *)
(* paths to values; the path of an object holds a value of type "object".  *)
(***************************************************************************)
StringValue(s) == [type |-> "string", text |-> s, tenths |-> 0, bool |-> FALSE]
NumberValue(n) == [type |-> "number", text |-> <<>>, tenths |-> n, bool |-> FALSE]
BooleanValue(b) == [type |-> "boolean", text |-> <<>>, tenths |-> 0, bool |-> b]
ObjectValue == [type |-> "object", text |-> <<>>, tenths |-> 0, bool |-> FALSE]
\* a property that the object does not have
UndefinedValue == [type |-> "undefined", text |-> <<>>, tenths |-> 0, bool |-> FALSE]

ConfigPaths ==
  {<<"b","r","o","w","s","e","r">>, <<"h","e","a","d","e","d">>, <<"d","e","f","a","u","l","t","L","i","m","i","t">>, <<"d","e","l","a","y">>, <<"d","e","l","a","y",".","m","i","n","M","s">>, <<"d","e","l","a","y",".","m","a","x","M","s">>, <<"c","a","c","h","e">>,
   <<"c","a","c","h","e",".","e","n","a","b","l","e","d">>, <<"c","a","c","h","e",".","t","t","l","M","i","n","u","t","e","s">>, <<"o","u","t","p","u","t">>, <<"v","e","r","b","o","s","e">>}
\* configSchema.parse({})
DefaultConfig ==
  [p \in ConfigPaths |->
     CASE p = <<"b","r","o","w","s","e","r">> -> StringValue(<<"c","h","r","o","m","i","u","m">>)
       [] p = <<"h","e","a","d","e","d">> -> BooleanValue(FALSE)
       [] p = <<"d","e","f","a","u","l","t","L","i","m","i","t">> -> NumberValue(100)
       [] p = <<"d","e","l","a","y">> -> ObjectValue
       [] p = <<"d","e","l","a","y",".","m","i","n","M","s">> -> NumberValue(8000)
       [] p = <<"d","e","l","a","y",".","m","a","x","M","s">> -> NumberValue(25000)
       [] p = <<"c","a","c","h","e">> -> ObjectValue
       [] p = <<"c","a","c","h","e",".","e","n","a","b","l","e","d">> -> BooleanValue(TRUE)
       [] p = <<"c","a","c","h","e",".","t","t","l","M","i","n","u","t","e","s">> -> NumberValue(14400)
       [] p = <<"o","u","t","p","u","t">> -> StringValue(<<"t","e","x","t">>)
       [] p = <<"v","e","r","b","o","s","e">> -> BooleanValue(FALSE)]

\* z.enum([...])
IsEnum(v, texts) == v.type = "string" /\ v.text \in texts
\* z.boolean()
IsBoolean(v) == v.type = "boolean"
\* z.number().int().positive() and z.number().int().min(0)
IsPositiveInt(v) == v.type = "number" /\ v.tenths % 10 = 0 /\ v.tenths > 0
IsNonNegativeInt(v) == v.type = "number" /\ v.tenths % 10 = 0 /\ v.tenths >= 0
\* configSchema accepts the value
SchemaAccepts(c) ==
  /\ IsEnum(c[<<"b","r","o","w","s","e","r">>], {<<"c","h","r","o","m","i","u","m">>, <<"f","i","r","e","f","o","x">>, <<"w","e","b","k","i","t">>})
  /\ IsBoolean(c[<<"h","e","a","d","e","d">>])
  /\ IsPositiveInt(c[<<"d","e","f","a","u","l","t","L","i","m","i","t">>])
  /\ c[<<"d","e","l","a","y">>].type = "object"
  /\ IsNonNegativeInt(c[<<"d","e","l","a","y",".","m","i","n","M","s">>]) /\ IsNonNegativeInt(c[<<"d","e","l","a","y",".","m","a","x","M","s">>])
  /\ c[<<"c","a","c","h","e">>].type = "object"
  /\ IsBoolean(c[<<"c","a","c","h","e",".","e","n","a","b","l","e","d">>]) /\ IsPositiveInt(c[<<"c","a","c","h","e",".","t","t","l","M","i","n","u","t","e","s">>])
  /\ IsEnum(c[<<"o","u","t","p","u","t">>], {<<"t","e","x","t">>, <<"j","s","o","n">>, <<"c","s","v">>, <<"t","s","v">>})
  /\ IsBoolean(c[<<"v","e","r","b","o","s","e">>])

\* Number(value), restricted to the numerals the inputs here contain: digits
\* with an optional minus sign and an optional single decimal; the empty
\* string is 0, anything else NaN
IsDigits(s) == s # <<>> /\ \A i \in 1..Len(s) : s[i] \in SeqRange(DigitChars)
DigitOf(c) == (CHOOSE i \in 1..Len(DigitChars) : DigitChars[i] = c) - 1
RECURSIVE DigitsValue(_)
DigitsValue(s) == IF s = <<>> THEN 0 ELSE DigitsValue(Take(s, Len(s) - 1)) * 10 + DigitOf(s[Len(s)])
IsDecimal(parts) ==
  \/ Len(parts) = 1 /\ IsDigits(parts[1])
  \/ Len(parts) = 2 /\ IsDigits(parts[1]) /\ IsDigits(parts[2]) /\ Len(parts[2]) = 1
DecimalTenths(parts) ==
  DigitsValue(parts[1]) * 10 + (IF Len(parts) = 2 THEN DigitOf(parts[2][1]) ELSE 0)
IsNumber(s) ==
  \/ s = <<>>
  \/ IsDecimal(SplitOn(s, {"."}))
  \/ s[1] = "-" /\ IsDecimal(SplitOn(Tail(s), {"."}))
NumberTenths(s) ==
  IF s = <<>> THEN 0
  ELSE IF s[1] = "-" THEN 0 - DecimalTenths(SplitOn(Tail(s), {"."}))
  ELSE DecimalTenths(SplitOn(s, {"."}))
\* Number.isNaN(numVal) ? value : numVal
NumberOrString(value) == IF IsNumber(value) THEN NumberValue(NumberTenths(value)) ELSE StringValue(value)
\* the value of a top-level key: "true" and "false" are booleans
TopValue(value) ==
  IF value = <<"t","r","u","e">> THEN BooleanValue(TRUE)
  ELSE IF value = <<"f","a","l","s","e">> THEN BooleanValue(FALSE)
  ELSE NumberOrString(value)

validTopKeys == {<<"b","r","o","w","s","e","r">>, <<"h","e","a","d","e","d">>, <<"d","e","f","a","u","l","t","L","i","m","i","t">>, <<"d","e","l","a","y">>, <<"c","a","c","h","e">>, <<"o","u","t","p","u","t">>, <<"v","e","r","b","o","s","e">>}
validNestedKeys == {<<"d","e","l","a","y",".","m","i","n","M","s">>, <<"d","e","l","a","y",".","m","a","x","M","s">>, <<"c","a","c","h","e",".","e","n","a","b","l","e","d">>, <<"c","a","c","h","e",".","t","t","l","M","i","n","u","t","e","s">>}
IsNestedKey(key) == "." \in SeqRange(key)
\* the tests that end the command with exitCode 1 before anything is saved
KeyAccepted(key) ==
  IF IsNestedKey(key)
  THEN /\ Len(SplitOn(key, {"."})) = 2
       /\ SplitOn(key, {"."})[1] \in validTopKeys
       /\ key \in validNestedKeys
  ELSE key \in validTopKeys
\* the children of a top-level key
ChildrenOf(key) == {p \in ConfigPaths : StartsWith(p, key \o <<".">>)}
\* saveConfig's merged: the child replaced in a copy of the parent object,
\* or the top-level key replaced, and with it the object it held
MergedConfig(cfg, key, value) ==
  IF IsNestedKey(key) THEN [cfg EXCEPT ![key] = NumberOrString(value)]
  ELSE [p \in ConfigPaths |->
          IF p = key THEN TopValue(value)
          ELSE IF p \in ChildrenOf(key) THEN UndefinedValue
          ELSE cfg[p]]

\* loadConfig in a new process: the parsed file, or the defaults when the
\* file is missing or the schema rejects it
loadConfig(file) ==
  IF file.exists /\ SchemaAccepts(file.content) THEN file.content ELSE DefaultConfig

\* saveConfig: fs.writeFile(CONFIG_PATH, JSON.stringify(merged)), then
\* cachedConfig = configSchema.parse(merged), which throws when the schema
\* rejects merged
saveConfig(c, cfg, merged) ==
  IF SchemaAccepts(merged)
  THEN [c EXCEPT !.pc = "set", !.file = [exists |-> TRUE, content |-> merged],
                 !.cachedConfig = merged, !.exitCode = 0]
  ELSE [c EXCEPT !.pc = "threw", !.file = [exists |-> TRUE, content |-> merged],
                 !.cachedConfig = cfg, !.exitCode = 1]

\* one run of `config set <key> <value>` after cfg = await loadConfig()
ConfigSetRun(c, key, value, cfg) ==
  IF ~KeyAccepted(key) THEN [c EXCEPT !.pc = "rejected", !.cachedConfig = cfg, !.exitCode = 1]
  ELSE saveConfig(c, cfg, MergedConfig(cfg, key, value))

MaxSets == 2
SampleKeys ==
  {<<"b","r","o","w","s","e","r">>, <<"h","e","a","d","e","d">>,
   <<"d","e","f","a","u","l","t","L","i","m","i","t">>, <<"d","e","l","a","y">>,
   <<"d","e","l","a","y",".","m","i","n","M","s">>,
   <<"c","a","c","h","e",".","e","n","a","b","l","e","d">>,
   <<"v","e","r","b","o","s","e",".","x">>, <<"f","o","o">>,
   <<"d","e","l","a","y",".","f","o","o">>, <<"a",".","b",".","c">>}
SampleValues ==
  {<<"f","i","r","e","f","o","x">>, <<"o","p","e","r","a">>, <<"t","r","u","e">>, <<"5">>,
   <<"-","5">>, <<"1",".","5">>}

\* `config set <key> <value>` in a new process
configSet ==
  /\ config.pc \in {"start", "set", "rejected", "threw"}
  /\ config.sets < MaxSets
  /\ \E key \in SampleKeys, value \in SampleValues :
       config' = ConfigSetRun([config EXCEPT !.before = config.file,
                                             !.loaded = loadConfig(config.file),
                                             !.sets = @ + 1],
                              key, value, loadConfig(config.file))
  /\ UNCHANGED OtherThanConfig

ConfigInit ==
  /\ config = [ConfigIdle EXCEPT !.pc = "start",
                                 !.file = [exists |-> FALSE, content |-> DefaultConfig],
                                 !.before = [exists |-> FALSE, content |-> DefaultConfig],
                                 !.cachedConfig = DefaultConfig, !.loaded = DefaultConfig]
  /\ nav = NavIdle /\ build = BuildIdle /\ intro = IntroIdle /\ auth = AuthIdle
  /\ profiles = ProfilesIdle /\ people = PeopleIdle /\ cardText = CardTextIdle
  /\ watch = WatchIdle
  /\ ColIdle
ConfigNext == configSet
ConfigSpec == ConfigInit /\ [][ConfigNext]_vars

(***************************************************************************)
(* Claim about `config set`                                                *)
(***************************************************************************)
\* C30: after any sequence of `config set` runs the config file validates
\* against the schema; a run whose key is unknown or whose value the schema
\* rejects fails and leaves the file and the cached config as they were.
C30_FileValidAfterEverySet ==
  /\ config.file.exists => SchemaAccepts(config.file.content)
  /\ config.pc \in {"rejected", "threw"} =>
       /\ config.exitCode = 1
       /\ config.file = config.before
       /\ config.cachedConfig = config.loaded

====
